---- MODULE Spec2Model ----
(***************************************************************************)
(* Text-mode prompt search of EvoMusic: LLMPromptGenerator,                *)
(* LLMEvolutionOperator, PromptSearcher, MusicOptimizationProblem          *)
(* (src/EvoMusic/evolution/searchers.py) and MusicEvolver.evolve           *)
(* (src/EvoMusic/evolution/evolve.py).                                     *)
(*                                                                         *)
(* Strings are sequences of tokens: "O" is the opening tag <prompt>, "C"   *)
(* the closing tag </prompt>, " " a whitespace character and every other   *)
(* token one ordinary character.  Fractions (elites, novel_prompts,        *)
(* operator probability) are rationals k / FracDen and k / RandDen.        *)
(***************************************************************************)
EXTENDS Integers, Sequences, FiniteSets, TLC

VARIABLES
    cfg,              \* searchConf / evoConf of the run
    pc,               \* position of the single thread of control
    population,       \* PromptSearcher._population (SolutionBatch or None)
    n_generations,    \* evolve: number of generations handed to run()
    stepsCalled,      \* run(): step() invocations started so far
    steps_count,      \* SearchAlgorithm._steps_count: completed steps
    new_prompts,      \* new_prompts / new_population under construction
    gen,              \* frame of generate_prompts: num_prompts, prompts, caller
    op,               \* frame of the operator pipeline: stage, inputs, output
    evalIdx,          \* next member Problem.evaluate hands to _evaluate
    generated,        \* MusicOptimizationProblem.generated
    total_generated,  \* MusicOptimizationProblem.total_generated
    timing,           \* MusicOptimizationProblem.sample_time and current_time
    result,           \* value returned by evolve()
    response,         \* argument of parse_llm_response
    parsed,           \* value returned by parse_llm_response
    obs               \* observations of the current step (calls made, values returned)

vars == << cfg, pc, population, n_generations, stepsCalled, steps_count,
           new_prompts, gen, op, evalIdx, generated, total_generated, timing,
           result, response, parsed, obs >>

---------------------------------------------------------------------------
(* Bounds of the model *)

MaxLen == 6       \* longest response handed to parse_llm_response in SpecParse
MaxPop == 2       \* largest population_size
MaxGen == 3       \* largest n_generations passed to evolve
MaxConfigured == 1 \* largest config.generations
MaxArity == 3     \* largest operator input / output arity in SpecOp
FracDen == 2      \* elites and novel_prompts are k / FracDen, k in 0 .. FracDen
RandDen == 2      \* probabilities are k / RandDen; np.random.rand() is k / RandDen < 1

\* fitness of a solution that has not been evaluated (set_values clears it)
NaN == -1

\* the scores the fitness source returns
FitnessValues == {0, 1}

Min(a, b) == IF a < b THEN a ELSE b

\* Python slice s[:n] for n >= 0
Take(s, n) == SubSeq(s, 1, Min(n, Len(s)))

\* Python slice s[n:] for n >= 0
Drop(s, n) == SubSeq(s, n + 1, Len(s))

---------------------------------------------------------------------------
(* LLMPromptGenerator *)

Tokens == {"O", "C", "a", "b", " "}

\* str.count(tag) for a one-token tag
Count(s, t) == Cardinality({i \in 1..Len(s) : s[i] = t})

\* tag in s
Contains(s, t) == \E i \in 1..Len(s) : s[i] = t

\* s.index(tag): position of the first occurrence (1-based)
Index(s, t) == CHOOSE i \in 1..Len(s) : s[i] = t /\ \A j \in 1..(i-1) : s[j] # t

\* str.split(tag): the pieces between the occurrences of tag
RECURSIVE Split(_, _)
Split(s, t) ==
    IF ~Contains(s, t) THEN << s >>
    ELSE << Take(s, Index(s, t) - 1) >> \o Split(Drop(s, Index(s, t)), t)

RECURSIVE LStrip(_)
LStrip(s) == IF s # << >> /\ Head(s) = " " THEN LStrip(Tail(s)) ELSE s

RECURSIVE RStrip(_)
RStrip(s) ==
    IF s # << >> /\ s[Len(s)] = " " THEN RStrip(Take(s, Len(s) - 1)) ELSE s

\* str.strip()
Strip(s) == RStrip(LStrip(s))

\* answer[answer.index("<prompt>") + 8 :].strip()
AfterOpen(answer) == Strip(Drop(answer, Index(answer, "O")))

\* the loop of parse_llm_response over the pieces
RECURSIVE ParsePieces(_)
ParsePieces(pieces) ==
    IF pieces = << >> THEN << >>
    ELSE (IF Contains(Head(pieces), "O") THEN << AfterOpen(Head(pieces)) >> ELSE << >>)
         \o ParsePieces(Tail(pieces))

\* variant: the tag counts are not compared
BalancedAlways(resp) == TRUE

\* the guard of parse_llm_response and generate_prompts on the tag counts
Balanced(resp) == Count(resp, "O") = Count(resp, "C")

\* variant: the prompts of a response are extracted whatever its tag counts
parse_llm_responseLenient(resp) == ParsePieces(Split(resp, "C"))

parse_llm_response(resp) ==
    IF ~Balanced(resp) THEN << >> ELSE ParsePieces(Split(resp, "C"))


\* the text query_llm returns when the request or its decoding fails
\* ("A default music prompt.": characters and blanks, no tag)
Fallback == << "d", " ", "p" >>

\* texts the LLM service answers with in the search runs: one prompt, two prompts
\* with blanks around them, and a malformed answer whose second tag is not closed
LLMTexts ==
    { << "O", "a", "C" >>,
      << " ", "O", " ", "b", "C", "O", "a", "C" >>,
      << "O", "c", "C", "O", "a" >> }

\* variant: the fallback is a prompt enclosed in the two tags
query_llmTaggedFallback(text, ok) ==
    IF ok THEN Strip(text) ELSE << "O" >> \o Fallback \o << "C" >>

\* query_llm: the stripped content of the answer, or the fallback on any exception
query_llm(text, ok) == IF ok THEN Strip(text) ELSE Fallback

\* every value query_llm can return in the search runs
QueryResults == { query_llm(t, ok) : t \in LLMTexts, ok \in BOOLEAN }

\* the for loop of generate_prompts over the pieces, with its break
RECURSIVE GenAppendPieces(_, _, _)
GenAppendPieces(prompts, pieces, num) ==
    IF pieces = << >> THEN prompts
    ELSE LET p1 == IF Contains(Head(pieces), "O")
                   THEN Append(prompts, AfterOpen(Head(pieces)))
                   ELSE prompts
         IN  IF Len(p1) >= num THEN p1
             ELSE GenAppendPieces(p1, Tail(pieces), num)

\* one iteration of the while loop of generate_prompts on the answer received
GenIteration(prompts, answers, num) ==
    IF ~Balanced(answers) THEN prompts
    ELSE GenAppendPieces(prompts, Split(answers, "C"), num)

---------------------------------------------------------------------------
(* Selection primitives of PromptSearcher *)

\* sequences of k pairwise distinct elements of S (np.random.choice, replace=False)
Injections(S, k) ==
    { q \in [1..k -> S] : \A i, j \in 1..k : i # j => q[i] # q[j] }

\* variant: the product is rounded up instead of truncated
CeilFrac(k, size) == (k * size + FracDen - 1) \div FracDen

\* int(fraction * population_size) for the fraction k / FracDen
FloorFrac(k, size) == (k * size) \div FracDen

\* orders of the positions of fit that argsort can return; ties in any order
ArgSorts(fit, descending) ==
    { q \in Injections(1..Len(fit), Len(fit)) :
        \A i, j \in 1..Len(fit) :
            i < j => IF descending THEN fit[q[i]] >= fit[q[j]]
                                   ELSE fit[q[i]] <= fit[q[j]] }

\* sample_population on the positions of fitness: the position sequences it can
\* return; the empty set when np.random.choice raises
sample_population(fitness, n, sample) ==
    IF n = 0 THEN { << >> }
    ELSE IF sample
         THEN (IF n > Len(fitness) THEN {} ELSE Injections(1..Len(fitness), n))
         ELSE { Take(q, n) : q \in ArgSorts(fitness, FALSE) }

\* the values at the given positions
At(values, idx) == [i \in 1..Len(idx) |-> values[idx[i]]]

\* variant: the positions from the lowest to the highest evaluation
argsortAscending(pop) == ArgSorts(pop.evals, FALSE)

\* SolutionBatch.argsort() of a problem with objective_sense="max": the positions
\* from the best (highest) to the worst evaluation; ties in any order
argsort(pop) == ArgSorts(pop.evals, TRUE)

\* get_elites when self.population.argsort() returns indices
ElitesAt(c, pop, indices) ==
    IF c.elites = 0 THEN { << >> }
    ELSE LET num_elites == FloorFrac(c.elites, c.population_size)
         IN  IF c.sample
             THEN { At(pop.values, q) : q \in sample_population(pop.evals, num_elites, TRUE) }
             ELSE { At(pop.values, Take(indices, num_elites)) }

\* get_elites: the groups it can return for the current population
get_elites(c, pop) == UNION { ElitesAt(c, pop, indices) : indices \in argsort(pop) }

\* the ranking report of full_LLM_step: one line per member in the order of
\* indices, with its 1-based number, its prompt and its score out of 100
Ranking(pop, indices) ==
    [i \in 1..Len(indices) |->
        [number |-> indices[i],
         prompt |-> pop.values[indices[i]],
         score  |-> pop.evals[indices[i]] * 50 + 50]]

\* the elements of a sequence
Range(s) == { s[i] : i \in 1..Len(s) }

\* variant: the members of the tournament are drawn with replacement
TournamentDrawsReplace(c, values) ==
    [1..c.tournament_size -> 1..Len(values)]

\* np.random.choice(len(population), tournament_size, replace=False): the position
\* sequences it can return; the empty set when it raises
TournamentDraws(c, values) ==
    IF c.tournament_size > Len(values) THEN {}
    ELSE Injections(1..Len(values), c.tournament_size)

\* sample_population on the members drawn at the positions sel
TournamentPick(c, values, fitness, n, sel) ==
    { At(At(values, sel), q) : q \in sample_population(At(fitness, sel), n, c.sample) }

\* tournament_selection: the groups it can return; empty when a draw raises
tournament_selection(c, values, fitness, n) ==
    UNION { TournamentPick(c, values, fitness, n, sel) :
            sel \in TournamentDraws(c, values) }


---------------------------------------------------------------------------
(* Configurations and initial states *)

\* an LLMPromptOperator: input arity, output arity, probability k / RandDen
Operator(i, o, p) == [input |-> i, output |-> o, probability |-> p]

\* the LLM_genetic_operators lists of the search runs
Pipelines ==
    { << Operator(2, 2, 1), Operator(2, 1, 1) >> }

\* the modes that make the problem a text problem
TextModes == {"full LLM", "LLM evolve"}

\* MusicOptimizationProblem.text_mode
text_mode(c) == c.mode \in TextModes

\* the configurations of the search runs; the operator-pipeline runs take the
\* novelty fractions 0 and 1 / FracDen
SearchConfs ==
    { [population_size |-> ps, elites |-> e, novel_prompts |-> nv, sample |-> sm,
       mode |-> "full LLM", tournament_size |-> 1, operators |-> << >>] :
        ps \in 1..MaxPop, e \in 0..FracDen, nv \in 0..FracDen, sm \in BOOLEAN }
    \cup
    { [population_size |-> ps, elites |-> e, novel_prompts |-> nv, sample |-> sm,
       mode |-> "LLM evolve", tournament_size |-> ts, operators |-> ops] :
        ps \in 1..MaxPop, e \in 0..FracDen, nv \in 0..1, sm \in BOOLEAN,
        ts \in 1..2, ops \in Pipelines }

\* PromptSearcher._population = None
NoPopulation == [isNone |-> TRUE, values |-> << >>, evals |-> << >>]

\* a SolutionBatch whose values were just set: every evaluation is NaN
Batch(values) ==
    [isNone |-> FALSE, values |-> values, evals |-> [i \in 1..Len(values) |-> NaN]]

NoGen == [num |-> 0, prompts |-> << >>, caller |-> "none"]
NoOp == [stage |-> 0, inputs |-> << >>, output |-> << >>]
NoResult == [returned |-> FALSE]

\* sample_time = 0 and current_time = 0, as __init__ sets them
NoTiming == [sample_time |-> 0, current_time |-> 0]

\* the instruction handed to query_llm: no query made yet, the request of
\* generate_prompts, the request of full_LLM_step, the request of an operator
NoQuery == [kind |-> "none"]
GenerateQuery(num) == [kind |-> "generate", num |-> num]
FullLLMPrompt(ranking, num_generate) ==
    [kind |-> "full_LLM", ranking |-> ranking, num_generate |-> num_generate]
OperatorPrompt(stage, inputs) ==
    [kind |-> "operator", stage |-> stage, prompts |-> inputs]

NoObs ==
    [calls |-> {},            \* strategy functions invoked by the current step
     strategySteps |-> 0,     \* stepping strategies applied since construction
     elitesRet |-> << >>,     \* value of the latest get_elites
     novelRet |-> << >>,      \* value of the latest get_novel_prompts
     queried |-> FALSE,       \* query_llm invoked since the latest call began
     novelQueried |-> FALSE,  \* query_llm invoked by the latest get_novel_prompts
     n_arg |-> 0,             \* argument evolve() was called with
     drawn |-> {},            \* positions drawn by the tournament whose group
                              \* awaits the first operator
     outcome |-> "none",      \* how the latest request of query_llm went
     ranking |-> << >>,       \* ranking report of the running full_LLM_step
     query |-> NoQuery,       \* instruction of the latest query_llm of the
                              \* running loop
     retries |-> 0,           \* answers in a row that brought the running loop
                              \* no prompt, modulo 2
     raised |-> "none"]       \* exception that ended the run

\* state after MusicEvolver.__init__ in text mode
Init ==
    /\ cfg \in SearchConfs
    /\ pc = "start"
    /\ population = NoPopulation
    /\ n_generations = 0
    /\ stepsCalled = 0
    /\ steps_count = 0
    /\ new_prompts = << >>
    /\ gen = NoGen
    /\ op = NoOp
    /\ evalIdx = 0
    /\ generated = 0
    /\ total_generated = 0
    /\ timing = NoTiming
    /\ result = NoResult
    /\ response = << >>
    /\ parsed = << >>
    /\ obs = NoObs

\* raise: the exception leaves evolve(); nothing else changes
Raise(kind) ==
    /\ pc' = "error"
    /\ obs' = [obs EXCEPT !.raised = kind]

---------------------------------------------------------------------------
(* MusicEvolver.evolve and SearchAlgorithm.run *)

\* the argument None of evolve(), told apart from every number of generations
None == -1

\* "not n_generations": None and 0 are the falsy arguments
Falsy(n) == n = None \/ n = 0

\* variant: one generation more than asked for is handed to run()
EvolveOneMore(n, configured) ==
    /\ pc = "start"
    /\ n_generations' = (IF Falsy(n) THEN configured ELSE n) + 1
    /\ pc' = "run"
    /\ obs' = [obs EXCEPT !.n_arg = n]
    /\ UNCHANGED << cfg, population, stepsCalled, steps_count, new_prompts, gen, op,
                    evalIdx, generated, total_generated, timing, result, response, parsed >>

\* variant: only a missing argument is replaced by the configured number
EvolveOnlyNone(n, configured) ==
    /\ pc = "start"
    /\ n_generations' = IF n = None THEN configured ELSE n
    /\ pc' = "run"
    /\ obs' = [obs EXCEPT !.n_arg = n]
    /\ UNCHANGED << cfg, population, stepsCalled, steps_count, new_prompts, gen, op,
                    evalIdx, generated, total_generated, timing, result, response, parsed >>

\* evolve(n_generations): n is None or a number of generations; in the search
\* runs n = 0 stands for both falsy arguments; configured is
\* self.config.generations
Evolve(n, configured) ==
    /\ pc = "start"
    /\ n_generations' = IF Falsy(n) THEN configured ELSE n
    /\ pc' = "run"
    /\ obs' = [obs EXCEPT !.n_arg = n]
    /\ UNCHANGED << cfg, population, stepsCalled, steps_count, new_prompts, gen, op,
                    evalIdx, generated, total_generated, timing, result, response, parsed >>

\* variant: the initial step is not counted among the generations of the run
StepInitialUncounted ==
    /\ pc = "run"
    /\ stepsCalled < n_generations
    /\ population.isNone
    /\ gen' = [num |-> cfg.population_size, prompts |-> << >>, caller |-> "_fill"]
    /\ obs' = [obs EXCEPT !.calls = {}, !.queried = FALSE]
    /\ pc' = "generate_prompts"
    /\ UNCHANGED << cfg, population, n_generations, stepsCalled, steps_count,
                    new_prompts, op, evalIdx, generated, total_generated, timing, result,
                    response, parsed >>

\* variant: the initial population is generated again on every step
StepInitialAgain ==
    /\ pc = "run"
    /\ stepsCalled < n_generations
    /\ stepsCalled' = stepsCalled + 1
    /\ gen' = [num |-> cfg.population_size, prompts |-> << >>, caller |-> "_fill"]
    /\ obs' = [obs EXCEPT !.calls = {}, !.queried = FALSE]
    /\ pc' = "generate_prompts"
    /\ UNCHANGED << cfg, population, n_generations, steps_count, new_prompts, op,
                    evalIdx, generated, total_generated, timing, result, response, parsed >>

\* _step on a searcher without population: generate_batch -> _fill -> generate_prompts
StepInitial ==
    /\ pc = "run"
    /\ stepsCalled < n_generations
    /\ population.isNone
    /\ stepsCalled' = stepsCalled + 1
    /\ gen' = [num |-> cfg.population_size, prompts |-> << >>, caller |-> "_fill"]
    /\ obs' = [obs EXCEPT !.calls = {}, !.queried = FALSE]
    /\ pc' = "generate_prompts"
    /\ UNCHANGED << cfg, population, n_generations, steps_count, new_prompts, op,
                    evalIdx, generated, total_generated, timing, result, response, parsed >>

\* variant: the strategy is applied whether or not a population exists
StepFullLLMAlways ==
    /\ pc = "run"
    /\ stepsCalled < n_generations
    /\ cfg.mode = "full LLM"
    /\ stepsCalled' = stepsCalled + 1
    /\ \E indices \in argsort(population) :
         \E elites \in ElitesAt(cfg, population, indices) :
            /\ new_prompts' = elites
            /\ obs' = [obs EXCEPT !.calls = {"get_elites"},
                                  !.strategySteps = @ + 1,
                                  !.elitesRet = elites,
                                  !.queried = FALSE,
                                  !.ranking = Ranking(population, indices)]
    /\ pc' = "get_novel_prompts"
    /\ UNCHANGED << cfg, population, n_generations, steps_count, gen, op, evalIdx,
                    generated, total_generated, timing, result, response, parsed >>

\* _step -> full_LLM_step up to the return of get_elites
StepFullLLM ==
    /\ pc = "run"
    /\ stepsCalled < n_generations
    /\ ~population.isNone
    /\ cfg.mode = "full LLM"
    /\ stepsCalled' = stepsCalled + 1
    /\ \E indices \in argsort(population) :
         \E elites \in ElitesAt(cfg, population, indices) :
            /\ new_prompts' = elites
            /\ obs' = [obs EXCEPT !.calls = {"get_elites"},
                                  !.strategySteps = @ + 1,
                                  !.elitesRet = elites,
                                  !.queried = FALSE,
                                  !.ranking = Ranking(population, indices)]
    /\ pc' = "get_novel_prompts"
    /\ UNCHANGED << cfg, population, n_generations, steps_count, gen, op, evalIdx,
                    generated, total_generated, timing, result, response, parsed >>

\* _step -> LLM_evolve_step up to the return of get_elites
StepLLMEvolve ==
    /\ pc = "run"
    /\ stepsCalled < n_generations
    /\ ~population.isNone
    /\ cfg.mode = "LLM evolve"
    /\ stepsCalled' = stepsCalled + 1
    /\ \E elites \in get_elites(cfg, population) :
        /\ new_prompts' = elites
        /\ obs' = [obs EXCEPT !.calls = {"get_elites"},
                              !.strategySteps = @ + 1,
                              !.elitesRet = elites,
                              !.queried = FALSE]
    /\ pc' = "get_novel_prompts"
    /\ UNCHANGED << cfg, population, n_generations, steps_count, gen, op, evalIdx,
                    generated, total_generated, timing, result, response, parsed >>

\* where get_novel_prompts returns to
AfterNovel == IF cfg.mode = "full LLM" THEN "full_LLM_loop" ELSE "LLM_evolve_loop"

\* get_novel_prompts: return [] at once, or enter generate_prompts(num_novel)
GetNovelPrompts ==
    /\ pc = "get_novel_prompts"
    /\ IF cfg.novel_prompts = 0
       THEN /\ obs' = [obs EXCEPT !.calls = @ \cup {"get_novel_prompts"},
                                  !.novelRet = << >>, !.queried = FALSE,
                                  !.novelQueried = FALSE]
            /\ pc' = AfterNovel
            /\ gen' = gen
       ELSE /\ obs' = [obs EXCEPT !.calls = @ \cup {"get_novel_prompts"},
                                  !.queried = FALSE]
            /\ gen' = [num |-> FloorFrac(cfg.novel_prompts, cfg.population_size),
                       prompts |-> << >>, caller |-> "get_novel_prompts"]
            /\ pc' = "generate_prompts"
    /\ UNCHANGED << cfg, population, n_generations, stepsCalled, steps_count,
                    new_prompts, op, evalIdx, generated, total_generated, timing, result,
                    response, parsed >>


---------------------------------------------------------------------------
(* LLMPromptGenerator.generate_prompts, called by _fill and get_novel_prompts *)

\* variant: the loop body runs once before the quota is looked at
GeneratePromptsQueryFirst(answers) ==
    /\ pc = "generate_prompts"
    /\ Len(gen.prompts) < gen.num \/ ~obs.queried
    /\ gen' = [gen EXCEPT !.prompts = GenIteration(gen.prompts, answers, gen.num)]
    /\ obs' = [obs EXCEPT !.queried = TRUE,
                          !.query = GenerateQuery(gen.num - Len(gen.prompts)),
                          !.retries = IF GenIteration(gen.prompts, answers, gen.num)
                                          = gen.prompts
                                       THEN 1 - @ ELSE 0]
    /\ UNCHANGED << cfg, pc, population, n_generations, stepsCalled, steps_count,
                    new_prompts, op, evalIdx, generated, total_generated, timing, result,
                    response, parsed >>

\* variant: the request for fresh prompts quotes the ranking of the population
GeneratePromptsQueryRanked(answers) ==
    /\ pc = "generate_prompts"
    /\ Len(gen.prompts) < gen.num
    /\ gen' = [gen EXCEPT !.prompts = GenIteration(gen.prompts, answers, gen.num)]
    /\ obs' = [obs EXCEPT !.queried = TRUE,
                          !.query = FullLLMPrompt(obs.ranking, gen.num - Len(gen.prompts)),
                          !.retries = IF GenIteration(gen.prompts, answers, gen.num)
                                          = gen.prompts
                                       THEN 1 - @ ELSE 0]
    /\ UNCHANGED << cfg, pc, population, n_generations, stepsCalled, steps_count,
                    new_prompts, op, evalIdx, generated, total_generated, timing, result,
                    response, parsed >>

\* one turn of the while loop: query the LLM and collect the prompts of the answer
GeneratePromptsQuery(answers) ==
    /\ pc = "generate_prompts"
    /\ Len(gen.prompts) < gen.num
    /\ gen' = [gen EXCEPT !.prompts = GenIteration(gen.prompts, answers, gen.num)]
    /\ obs' = [obs EXCEPT !.queried = TRUE,
                          !.query = GenerateQuery(gen.num - Len(gen.prompts)),
                          !.retries = IF GenIteration(gen.prompts, answers, gen.num)
                                          = gen.prompts
                                       THEN 1 - @ ELSE 0]
    /\ UNCHANGED << cfg, pc, population, n_generations, stepsCalled, steps_count,
                    new_prompts, op, evalIdx, generated, total_generated, timing, result,
                    response, parsed >>

\* generate_prompts returns to _fill (text mode): the prompts become the new batch,
\* which _step hands to evaluate
FillReturn ==
    /\ pc = "generate_prompts"
    /\ Len(gen.prompts) >= gen.num
    /\ gen.caller = "_fill"
    /\ text_mode(cfg)
    /\ population' = Batch(gen.prompts)
    /\ gen' = NoGen
    /\ evalIdx' = 1
    /\ obs' = [obs EXCEPT !.retries = 0, !.query = NoQuery]
    /\ pc' = "evaluate"
    /\ UNCHANGED << cfg, n_generations, stepsCalled, steps_count, new_prompts, op,
                    generated, total_generated, timing, result, response, parsed >>

\* largest max_seq_len and largest number of rows of a converted prompt
MaxRows == 2

\* preprocess_text(prompts, max_seq_len): one embedding per prompt; rows[i] is the
\* number of rows the conversion of the i-th prompt has
preprocess_text(prompts, rows) ==
    [i \in 1..Len(prompts) |-> [text |-> prompts[i], rows |-> rows[i]]]

\* variant: every converted prompt is kept
KeepAll(processed, len) == processed

\* [prompt for prompt in processed if prompt.shape[0] == max_seq_len]
RECURSIVE KeepValid(_, _)
KeepValid(processed, len) ==
    IF processed = << >> THEN << >>
    ELSE (IF Head(processed).rows = len THEN << Head(processed) >> ELSE << >>)
         \o KeepValid(Tail(processed), len)

\* generate_prompts returns to _fill (vector mode): the prompts are converted, the
\* conversions of another length dropped and the rest appended up to the quota;
\* the loop goes on with a new generate_prompts or the batch is filled
FillVector(rows) ==
    /\ pc = "generate_prompts"
    /\ Len(gen.prompts) >= gen.num
    /\ gen.caller = "_fill"
    /\ ~text_mode(cfg)
    /\ Len(rows) = Len(gen.prompts)
    /\ LET processed == KeepValid(preprocess_text(gen.prompts, rows), cfg.max_seq_len)
           processed_prompts == new_prompts \o Take(processed, gen.num - Len(new_prompts))
       IN  IF Len(processed_prompts) < gen.num
           THEN /\ new_prompts' = processed_prompts
                /\ gen' = [gen EXCEPT !.prompts = << >>]
                /\ UNCHANGED << pc, population >>
           ELSE /\ population' = Batch(processed_prompts)
                /\ new_prompts' = << >>
                /\ gen' = NoGen
                /\ pc' = "filled"
    /\ obs' = [obs EXCEPT !.retries = 0, !.query = NoQuery]
    /\ UNCHANGED << cfg, n_generations, stepsCalled, steps_count, op, evalIdx,
                    generated, total_generated, timing, result, response, parsed >>

\* generate_prompts returns to get_novel_prompts, which returns to the step
NovelReturn ==
    /\ pc = "generate_prompts"
    /\ Len(gen.prompts) >= gen.num
    /\ gen.caller = "get_novel_prompts"
    /\ new_prompts' = new_prompts \o gen.prompts
    /\ obs' = [obs EXCEPT !.novelRet = gen.prompts, !.novelQueried = obs.queried,
                          !.retries = 0, !.query = NoQuery]
    /\ gen' = NoGen
    /\ pc' = AfterNovel
    /\ UNCHANGED << cfg, population, n_generations, stepsCalled, steps_count, op,
                    evalIdx, generated, total_generated, timing, result, response, parsed >>

---------------------------------------------------------------------------
(* PromptSearcher.full_LLM_step after the elites and the novel prompts *)

\* variant: the prompts of the answer take the place of what was collected so far
FullLLMQueryOverwrite(answers) ==
    /\ pc = "full_LLM_loop"
    /\ Len(new_prompts) < cfg.population_size
    /\ new_prompts' = Take(parse_llm_response(answers), cfg.population_size)
    /\ obs' = [obs EXCEPT !.queried = TRUE,
                          !.query = FullLLMPrompt(obs.ranking,
                                        cfg.population_size - Len(new_prompts)),
                          !.retries = IF parse_llm_response(answers) = << >>
                                       THEN 1 - @ ELSE 0]
    /\ UNCHANGED << cfg, pc, population, n_generations, stepsCalled, steps_count, gen,
                    op, evalIdx, generated, total_generated, timing, result, response, parsed >>

\* variant: every query asks for a whole population
FullLLMQueryAskAll(answers) ==
    /\ pc = "full_LLM_loop"
    /\ Len(new_prompts) < cfg.population_size
    /\ new_prompts' = new_prompts \o
            Take(parse_llm_response(answers), cfg.population_size - Len(new_prompts))
    /\ obs' = [obs EXCEPT !.queried = TRUE,
                          !.query = FullLLMPrompt(obs.ranking, cfg.population_size),
                          !.retries = IF parse_llm_response(answers) = << >>
                                       THEN 1 - @ ELSE 0]
    /\ UNCHANGED << cfg, pc, population, n_generations, stepsCalled, steps_count, gen,
                    op, evalIdx, generated, total_generated, timing, result, response, parsed >>

\* one turn of the while loop: query with the ranking, parse, append up to the quota
FullLLMQuery(answers) ==
    /\ pc = "full_LLM_loop"
    /\ Len(new_prompts) < cfg.population_size
    /\ new_prompts' = new_prompts \o
            Take(parse_llm_response(answers), cfg.population_size - Len(new_prompts))
    /\ obs' = [obs EXCEPT !.queried = TRUE,
                          !.query = FullLLMPrompt(obs.ranking,
                                        cfg.population_size - Len(new_prompts)),
                          !.retries = IF parse_llm_response(answers) = << >>
                                       THEN 1 - @ ELSE 0]
    /\ UNCHANGED << cfg, pc, population, n_generations, stepsCalled, steps_count, gen,
                    op, evalIdx, generated, total_generated, timing, result, response, parsed >>

\* variant: the elites carried over keep a score and are not evaluated again
SetValuesKeepElites ==
    /\ pc \in {"full_LLM_loop", "LLM_evolve_loop"}
    /\ Len(new_prompts) >= cfg.population_size
    /\ IF Len(new_prompts) = Len(population.values)
       THEN /\ population' =
                  [isNone |-> FALSE, values |-> new_prompts,
                   evals |-> [i \in 1..Len(new_prompts) |->
                                IF i <= Len(obs.elitesRet) THEN 0 ELSE NaN]]
            /\ new_prompts' = << >>
            /\ evalIdx' = Len(obs.elitesRet) + 1
            /\ pc' = "evaluate"
            /\ obs' = [obs EXCEPT !.elitesRet = << >>, !.novelRet = << >>,
                                  !.novelQueried = FALSE, !.retries = 0,
                                  !.ranking = << >>, !.query = NoQuery]
       ELSE /\ Raise("ValueError")
            /\ UNCHANGED << population, new_prompts, evalIdx >>
    /\ UNCHANGED << cfg, n_generations, stepsCalled, steps_count, gen, op,
                    generated, total_generated, timing, result, response, parsed >>

\* self._population.set_values(new): assigns the whole batch and clears its
\* evaluations; a list of another length than the batch is rejected
SetValues ==
    /\ pc \in {"full_LLM_loop", "LLM_evolve_loop"}
    /\ Len(new_prompts) >= cfg.population_size
    /\ IF Len(new_prompts) = Len(population.values)
       THEN /\ population' = Batch(new_prompts)
            /\ new_prompts' = << >>
            /\ evalIdx' = 1
            /\ pc' = "evaluate"
            /\ obs' = [obs EXCEPT !.elitesRet = << >>, !.novelRet = << >>,
                                  !.novelQueried = FALSE, !.retries = 0,
                                  !.ranking = << >>, !.query = NoQuery]
       ELSE /\ Raise("ValueError")
            /\ UNCHANGED << population, new_prompts, evalIdx >>
    /\ UNCHANGED << cfg, n_generations, stepsCalled, steps_count, gen, op,
                    generated, total_generated, timing, result, response, parsed >>

---------------------------------------------------------------------------
(* PromptSearcher.LLM_evolve_step after the elites and the novel prompts *)

\* one turn of the while loop up to the first operator: tournament_selection on
\* the population of the previous generation
Tournament ==
    /\ pc = "LLM_evolve_loop"
    /\ Len(new_prompts) < cfg.population_size
    /\ LET groups == tournament_selection(cfg, population.values, population.evals,
                                          cfg.operators[1].input)
       IN  IF groups = {}
           THEN /\ Raise("ValueError")
                /\ op' = op
           ELSE /\ \E sel \in TournamentDraws(cfg, population.values) :
                     \E selected \in TournamentPick(cfg, population.values,
                                                    population.evals,
                                                    cfg.operators[1].input, sel) :
                        /\ op' = [stage |-> 1, inputs |-> selected, output |-> << >>]
                        /\ obs' = [obs EXCEPT !.calls = @ \cup {"tournament_selection"},
                                              !.drawn = Range(sel)]
                /\ pc' = "apply"
    /\ UNCHANGED << cfg, population, n_generations, stepsCalled, steps_count,
                    new_prompts, gen, evalIdx, generated, total_generated, timing, result,
                    response, parsed >>

\* the operator the pipeline is at
Stage == cfg.operators[op.stage]

\* apply: the assertion on the size of the input group fails
ApplyAssertFails ==
    /\ pc = "apply"
    /\ Len(op.inputs) # Stage.input
    /\ Raise("AssertionError")
    /\ UNCHANGED << cfg, population, n_generations, stepsCalled, steps_count,
                    new_prompts, gen, op, evalIdx, generated, total_generated, timing, result,
                    response, parsed >>

\* variant: the pass-through sample is drawn with replacement
ApplySkipReplace(r) ==
    /\ pc = "apply"
    /\ Len(op.inputs) = cfg.operators[op.stage].input
    /\ ~(r < cfg.operators[op.stage].probability)
    /\ IF cfg.operators[op.stage].output > 0 /\ op.inputs = << >>
       THEN /\ Raise("ValueError")
            /\ op' = op
       ELSE /\ \E q \in [1..cfg.operators[op.stage].output -> 1..Len(op.inputs)] :
                    op' = [op EXCEPT !.output = At(op.inputs, q)]
            /\ obs' = [obs EXCEPT !.calls = @ \cup {"apply"}, !.queried = FALSE,
                                  !.drawn = {}]
            /\ pc' = "applied"
    /\ UNCHANGED << cfg, population, n_generations, stepsCalled, steps_count,
                    new_prompts, gen, evalIdx, generated, total_generated, timing, result,
                    response, parsed >>

\* apply, operator not executed (np.random.rand() = r / RandDen is not below the
\* probability): np.random.choice(inputs, output, replace=False)
ApplySkip(r) ==
    /\ pc = "apply"
    /\ Len(op.inputs) = Stage.input
    /\ ~(r < Stage.probability)
    /\ IF Stage.output > Len(op.inputs)
       THEN /\ Raise("ValueError")
            /\ op' = op
       ELSE /\ \E q \in Injections(1..Len(op.inputs), Stage.output) :
                    op' = [op EXCEPT !.output = At(op.inputs, q)]
            /\ obs' = [obs EXCEPT !.calls = @ \cup {"apply"}, !.queried = FALSE,
                                  !.drawn = {}]
            /\ pc' = "applied"
    /\ UNCHANGED << cfg, population, n_generations, stepsCalled, steps_count,
                    new_prompts, gen, evalIdx, generated, total_generated, timing, result,
                    response, parsed >>

\* apply, operator executed: enter the while loop with an empty output
ApplyExecute(r) ==
    /\ pc = "apply"
    /\ Len(op.inputs) = Stage.input
    /\ r < Stage.probability
    /\ op' = [op EXCEPT !.output = << >>]
    /\ obs' = [obs EXCEPT !.calls = @ \cup {"apply"}, !.queried = FALSE,
                          !.drawn = {}]
    /\ pc' = "apply_loop"
    /\ UNCHANGED << cfg, population, n_generations, stepsCalled, steps_count,
                    new_prompts, gen, evalIdx, generated, total_generated, timing, result,
                    response, parsed >>

\* variant: the whole parsed batch is appended
ApplyQueryNoTruncate(answers) ==
    /\ pc = "apply_loop"
    /\ Len(op.output) < cfg.operators[op.stage].output
    /\ op' = [op EXCEPT !.output = @ \o parse_llm_response(answers)]
    /\ obs' = [obs EXCEPT !.queried = TRUE,
                          !.query = OperatorPrompt(op.stage, op.inputs),
                          !.retries = IF parse_llm_response(answers) = << >>
                                       THEN 1 - @ ELSE 0]
    /\ UNCHANGED << cfg, pc, population, n_generations, stepsCalled, steps_count,
                    new_prompts, gen, evalIdx, generated, total_generated, timing, result,
                    response, parsed >>

\* one turn of the while loop of apply: query, parse, append up to the output arity
ApplyQuery(answers) ==
    /\ pc = "apply_loop"
    /\ Len(op.output) < Stage.output
    /\ op' = [op EXCEPT !.output =
                @ \o Take(parse_llm_response(answers), Stage.output - Len(@))]
    /\ obs' = [obs EXCEPT !.queried = TRUE,
                          !.query = OperatorPrompt(op.stage, op.inputs),
                          !.retries = IF parse_llm_response(answers) = << >>
                                       THEN 1 - @ ELSE 0]
    /\ UNCHANGED << cfg, pc, population, n_generations, stepsCalled, steps_count,
                    new_prompts, gen, evalIdx, generated, total_generated, timing, result,
                    response, parsed >>

\* the while loop of apply ends: return output
ApplyReturn ==
    /\ pc = "apply_loop"
    /\ Len(op.output) >= Stage.output
    /\ obs' = [obs EXCEPT !.retries = 0, !.query = NoQuery]
    /\ pc' = "applied"
    /\ UNCHANGED << cfg, population, n_generations, stepsCalled, steps_count,
                    new_prompts, gen, op, evalIdx, generated, total_generated, timing, result,
                    response, parsed >>

\* variant: every operator is handed the group the tournament selected
PipelineNextSameGroup ==
    /\ pc = "applied"
    /\ op.stage < Len(cfg.operators)
    /\ op' = [stage |-> op.stage + 1, inputs |-> op.inputs, output |-> << >>]
    /\ pc' = "apply"
    /\ UNCHANGED << cfg, population, n_generations, stepsCalled, steps_count,
                    new_prompts, gen, evalIdx, generated, total_generated, timing, result,
                    response, parsed, obs >>

\* for operator in self.operators: the next operator takes the output as its input
PipelineNext ==
    /\ pc = "applied"
    /\ op.stage < Len(cfg.operators)
    /\ op' = [stage |-> op.stage + 1, inputs |-> op.output, output |-> << >>]
    /\ pc' = "apply"
    /\ UNCHANGED << cfg, population, n_generations, stepsCalled, steps_count,
                    new_prompts, gen, evalIdx, generated, total_generated, timing, result,
                    response, parsed, obs >>

\* variant: the offspring also take their places in the population at once
PipelineEndInPlace ==
    /\ pc = "applied"
    /\ op.stage = Len(cfg.operators)
    /\ LET grown == new_prompts \o
                        Take(op.output, cfg.population_size - Len(new_prompts))
       IN  /\ new_prompts' = grown
           /\ population' = [population EXCEPT !.values =
                    [i \in 1..Len(@) |->
                        IF Len(new_prompts) < i /\ i <= Len(grown) THEN grown[i] ELSE @[i]]]
    /\ op' = NoOp
    /\ pc' = "LLM_evolve_loop"
    /\ UNCHANGED << cfg, n_generations, stepsCalled, steps_count, gen,
                    evalIdx, generated, total_generated, timing, result, response, parsed, obs >>

\* after the last operator: append the offspring up to the quota
PipelineEnd ==
    /\ pc = "applied"
    /\ op.stage = Len(cfg.operators)
    /\ new_prompts' = new_prompts \o
            Take(op.output, cfg.population_size - Len(new_prompts))
    /\ op' = NoOp
    /\ pc' = "LLM_evolve_loop"
    /\ UNCHANGED << cfg, population, n_generations, stepsCalled, steps_count, gen,
                    evalIdx, generated, total_generated, timing, result, response, parsed, obs >>


---------------------------------------------------------------------------
(* MusicOptimizationProblem._evaluate, called by Problem.evaluate on every member *)

\* generation times measured by time.time(), in clock ticks
Durations == {0, 1, 12}

\* sample_time after a generation that took d ticks: the first measurement, then
\* sample_time * 0.9 + generation_time * 0.1 (to the tick)
SampleTime(old, d) == IF old = 0 THEN d ELSE (old * 9 + d) \div 10

\* variant: the counters are reset one evaluation late
EvaluateResetLate(fitness, d) ==
    /\ pc = "evaluate"
    /\ evalIdx <= Len(population.values)
    /\ IF generated + 1 > cfg.population_size
       THEN /\ generated' = 0
            /\ total_generated' = total_generated + cfg.population_size
            /\ timing' = [sample_time |-> SampleTime(timing.sample_time, d),
                          current_time |-> 0]
       ELSE /\ generated' = generated + 1
            /\ total_generated' = total_generated
            /\ timing' = [sample_time |-> SampleTime(timing.sample_time, d),
                          current_time |-> timing.current_time + d]
    /\ population' = [population EXCEPT !.evals[evalIdx] = fitness]
    /\ evalIdx' = evalIdx + 1
    /\ UNCHANGED << cfg, pc, n_generations, stepsCalled, steps_count, new_prompts, gen,
                    op, result, response, parsed, obs >>

\* variant: a solution is scored only while the estimated time of the pass,
\* current_time + sample_time * (population_size - generated), stays within
\* 12 ticks
EvaluateWithinEstimate(fitness, d) ==
    /\ pc = "evaluate"
    /\ evalIdx <= Len(population.values)
    /\ IF generated + 1 >= cfg.population_size
       THEN /\ generated' = 0
            /\ total_generated' = total_generated + cfg.population_size
            /\ timing' = [sample_time |-> SampleTime(timing.sample_time, d),
                          current_time |-> 0]
       ELSE /\ generated' = generated + 1
            /\ total_generated' = total_generated
            /\ timing' = [sample_time |-> SampleTime(timing.sample_time, d),
                          current_time |-> timing.current_time + d]
    /\ IF timing.current_time + d
            + SampleTime(timing.sample_time, d) * (cfg.population_size - generated - 1)
          <= 12
       THEN population' = [population EXCEPT !.evals[evalIdx] = fitness]
       ELSE population' = population
    /\ evalIdx' = evalIdx + 1
    /\ UNCHANGED << cfg, pc, n_generations, stepsCalled, steps_count, new_prompts, gen,
                    op, result, response, parsed, obs >>

\* _evaluate(solution) where generating and scoring take d ticks and the scorer
\* returns fitness
Evaluate(fitness, d) ==
    /\ pc = "evaluate"
    /\ evalIdx <= Len(population.values)
    /\ IF generated + 1 >= cfg.population_size
       THEN /\ generated' = 0
            /\ total_generated' = total_generated + cfg.population_size
            /\ timing' = [sample_time |-> SampleTime(timing.sample_time, d),
                          current_time |-> 0]
       ELSE /\ generated' = generated + 1
            /\ total_generated' = total_generated
            /\ timing' = [sample_time |-> SampleTime(timing.sample_time, d),
                          current_time |-> timing.current_time + d]
    /\ population' = [population EXCEPT !.evals[evalIdx] = fitness]
    /\ evalIdx' = evalIdx + 1
    /\ UNCHANGED << cfg, pc, n_generations, stepsCalled, steps_count, new_prompts, gen,
                    op, result, response, parsed, obs >>

\* variant: the failure is swallowed by _evaluate and Problem.evaluate goes on
\* with the next member
EvaluateFailsCaught ==
    /\ pc = "evaluate"
    /\ evalIdx <= Len(population.values)
    /\ generated' = generated + 1
    /\ evalIdx' = evalIdx + 1
    /\ obs' = [obs EXCEPT !.raised = "FitnessSourceError"]
    /\ UNCHANGED << cfg, pc, population, n_generations, stepsCalled, steps_count,
                    new_prompts, gen, op, total_generated, timing, result, response,
                    parsed >>

\* _evaluate(solution) where generate_music or compute_fitness raises: the member
\* was counted, nothing else was done, and neither _evaluate nor evaluate, _step,
\* step, run or evolve has a handler
EvaluateFails ==
    /\ pc = "evaluate"
    /\ evalIdx <= Len(population.values)
    /\ generated' = generated + 1
    /\ Raise("FitnessSourceError")
    /\ UNCHANGED << cfg, population, n_generations, stepsCalled, steps_count,
                    new_prompts, gen, op, evalIdx, total_generated, timing, result,
                    response, parsed >>

\* variant: the step returns before the last member is evaluated
StepReturnEarly ==
    /\ pc = "evaluate"
    /\ evalIdx >= Len(population.values)
    /\ steps_count' = steps_count + 1
    /\ evalIdx' = 0
    /\ pc' = "run"
    /\ UNCHANGED << cfg, population, n_generations, stepsCalled, new_prompts, gen, op,
                    generated, total_generated, timing, result, response, parsed, obs >>

\* evaluate has gone through the batch: _step returns and step() counts it
StepReturn ==
    /\ pc = "evaluate"
    /\ evalIdx > Len(population.values)
    /\ steps_count' = steps_count + 1
    /\ evalIdx' = 0
    /\ pc' = "run"
    /\ UNCHANGED << cfg, population, n_generations, stepsCalled, new_prompts, gen, op,
                    generated, total_generated, timing, result, response, parsed, obs >>

\* variant: the best member is taken to be the first of the ascending order
pop_worst(pop) ==
    { i \in 1..Len(pop.evals) : \A j \in 1..Len(pop.evals) : pop.evals[i] <= pop.evals[j] }

\* status["pop_best"]: the positions of the best member under objective_sense="max"
pop_best(pop) ==
    { i \in 1..Len(pop.evals) : \A j \in 1..Len(pop.evals) : pop.evals[i] >= pop.evals[j] }

\* run() has made its last step: evolve reads the status and the population
EvolveReturn ==
    /\ pc = "run"
    /\ stepsCalled >= n_generations
    /\ \E best \in pop_best(population) :
        result' = [returned |-> TRUE,
                   best_solution |-> [fitness |-> population.evals[best],
                                      solution |-> population.values[best]],
                   last_generation |-> [solutions |-> population.values,
                                        fitness_values |-> population.evals]]
    /\ pc' = "done"
    /\ UNCHANGED << cfg, population, n_generations, stepsCalled, steps_count,
                    new_prompts, gen, op, evalIdx, generated, total_generated, timing,
                    response, parsed, obs >>

\* the search runs; their evaluations take less than one clock tick (SpecEval
\* goes through the generation times)
Next ==
    \/ \E n \in 0..MaxGen, configured \in 1..MaxConfigured : Evolve(n, configured)
    \/ StepInitial
    \/ StepFullLLM
    \/ StepLLMEvolve
    \/ GetNovelPrompts
    \/ \E answers \in QueryResults : GeneratePromptsQuery(answers)
    \/ FillReturn
    \/ NovelReturn
    \/ \E answers \in QueryResults : FullLLMQuery(answers)
    \/ SetValues
    \/ Tournament
    \/ ApplyAssertFails
    \/ \E r \in 0..(RandDen - 1) : ApplySkip(r)
    \/ \E r \in 0..(RandDen - 1) : ApplyExecute(r)
    \/ \E answers \in QueryResults : ApplyQuery(answers)
    \/ ApplyReturn
    \/ PipelineNext
    \/ PipelineEnd
    \/ \E fitness \in FitnessValues : Evaluate(fitness, 0)
    \/ EvaluateFails
    \/ StepReturn
    \/ EvolveReturn

Spec == Init /\ [][Next]_vars

---------------------------------------------------------------------------
(* The search runs with an LLM service whose answers are never malformed but  *)
(* whose requests can fail, any number of times                              *)

\* the values query_llm returns then: the well-formed answers and the fallback
CleanResults == { a \in QueryResults : a = Fallback \/ Balanced(a) }

NextLive ==
    \/ \E n \in 0..MaxGen, configured \in 1..MaxConfigured : Evolve(n, configured)
    \/ StepInitial
    \/ StepFullLLM
    \/ StepLLMEvolve
    \/ GetNovelPrompts
    \/ \E answers \in CleanResults : GeneratePromptsQuery(answers)
    \/ FillReturn
    \/ NovelReturn
    \/ \E answers \in CleanResults : FullLLMQuery(answers)
    \/ SetValues
    \/ Tournament
    \/ ApplyAssertFails
    \/ \E r \in 0..(RandDen - 1) : ApplySkip(r)
    \/ \E r \in 0..(RandDen - 1) : ApplyExecute(r)
    \/ \E answers \in CleanResults : ApplyQuery(answers)
    \/ ApplyReturn
    \/ PipelineNext
    \/ PipelineEnd
    \/ \E fitness \in FitnessValues : Evaluate(fitness, 0)
    \/ EvaluateFails
    \/ StepReturn
    \/ EvolveReturn

\* the search is one thread of control that takes its next step whenever it has
\* one; nothing is assumed about which requests fail
FairSpec == Init /\ [][NextLive]_vars /\ WF_vars(NextLive)

---------------------------------------------------------------------------
(* The search runs with an LLM service whose requests never fail: every      *)
(* answer is one the service sent, well-formed or malformed, and an answer   *)
(* that holds a prompt keeps arriving as long as the search asks             *)

\* the values query_llm returns then
ReceivedResults == { query_llm(t, TRUE) : t \in LLMTexts }

\* the answers that hold at least one prompt
PromptResults == { a \in ReceivedResults : parse_llm_response(a) # << >> }

\* the malformed answers: the counts of the two tags differ
MalformedResults == { a \in ReceivedResults : ~Balanced(a) }


MaxRetry == 2     \* largest n_generations passed to evolve in SpecRetry

NextRetry ==
    \/ \E n \in 1..MaxRetry, configured \in 1..MaxConfigured : Evolve(n, configured)
    \/ StepInitial
    \/ StepFullLLM
    \/ StepLLMEvolve
    \/ GetNovelPrompts
    \/ \E answers \in ReceivedResults : GeneratePromptsQuery(answers)
    \/ FillReturn
    \/ NovelReturn
    \/ \E answers \in ReceivedResults : FullLLMQuery(answers)
    \/ SetValues
    \/ Tournament
    \/ ApplyAssertFails
    \/ \E r \in 0..(RandDen - 1) : ApplySkip(r)
    \/ \E r \in 0..(RandDen - 1) : ApplyExecute(r)
    \/ \E answers \in ReceivedResults : ApplyQuery(answers)
    \/ ApplyReturn
    \/ PipelineNext
    \/ PipelineEnd
    \/ \E fitness \in FitnessValues : Evaluate(fitness, 0)
    \/ EvaluateFails
    \/ StepReturn
    \/ EvolveReturn

\* the search is one thread of control that takes its next step whenever it has
\* one; nothing is assumed about which requests fail

\* a query of one of the collecting loops is answered with at least one prompt
PromptAnswer ==
    \/ \E answers \in PromptResults : GeneratePromptsQuery(answers)
    \/ \E answers \in PromptResults : FullLLMQuery(answers)
    \/ \E answers \in PromptResults : ApplyQuery(answers)

SpecRetry ==
    Init /\ [][NextRetry]_vars /\ WF_vars(NextRetry) /\ WF_vars(PromptAnswer)

---------------------------------------------------------------------------
(* The search runs of at most MaxRetry generations with an LLM service whose *)
(* answers are never malformed but whose requests can fail: every answer     *)
(* that brings no prompt is the fallback text                                *)

NextDegraded ==
    \/ \E n \in 1..MaxRetry, configured \in 1..MaxConfigured : Evolve(n, configured)
    \/ StepInitial
    \/ StepFullLLM
    \/ StepLLMEvolve
    \/ GetNovelPrompts
    \/ \E answers \in CleanResults : GeneratePromptsQuery(answers)
    \/ FillReturn
    \/ NovelReturn
    \/ \E answers \in CleanResults : FullLLMQuery(answers)
    \/ SetValues
    \/ Tournament
    \/ ApplyAssertFails
    \/ \E r \in 0..(RandDen - 1) : ApplySkip(r)
    \/ \E r \in 0..(RandDen - 1) : ApplyExecute(r)
    \/ \E answers \in CleanResults : ApplyQuery(answers)
    \/ ApplyReturn
    \/ PipelineNext
    \/ PipelineEnd
    \/ \E fitness \in FitnessValues : Evaluate(fitness, 0)
    \/ EvaluateFails
    \/ StepReturn
    \/ EvolveReturn

SpecDegraded == Init /\ [][NextDegraded]_vars



---------------------------------------------------------------------------
(* MusicEvolver.__init__ on any mode name, and the run up to the end of the   *)
(* first step                                                                *)

\* the modes for which __init__ builds an evotorch searcher
VectorModes == {"CMAES", "PGPE", "XNES", "SNES", "CEM", "GA"}

\* the mode names of the configurations, one of them unknown
ModeNames == TextModes \cup VectorModes \cup {"unknown"}

InitCtor ==
    /\ \E ps \in 1..MaxPop, m \in ModeNames :
        cfg = [population_size |-> ps, elites |-> 0, novel_prompts |-> 0,
               sample |-> FALSE, mode |-> m, tournament_size |-> 1,
               operators |-> << >>]
    /\ pc = "new"
    /\ population = NoPopulation
    /\ n_generations = 0
    /\ stepsCalled = 0
    /\ steps_count = 0
    /\ new_prompts = << >>
    /\ gen = NoGen
    /\ op = NoOp
    /\ evalIdx = 0
    /\ generated = 0
    /\ total_generated = 0
    /\ timing = NoTiming
    /\ result = NoResult
    /\ response = << >>
    /\ parsed = << >>
    /\ obs = NoObs

\* variant: a mode that is no vector mode is taken to be a text mode
ConstructLenient ==
    /\ pc = "new"
    /\ IF cfg.mode \in VectorModes
       THEN pc' = "continuous" /\ obs' = obs
       ELSE pc' = "start" /\ obs' = obs
    /\ UNCHANGED << cfg, population, n_generations, stepsCalled, steps_count,
                    new_prompts, gen, op, evalIdx, generated, total_generated, timing,
                    result, response, parsed >>

\* MusicEvolver.__init__: the problem is built, then a PromptSearcher in text mode
\* or the evotorch searcher the mode names (which runs outside this model); any
\* other mode raises
Construct ==
    /\ pc = "new"
    /\ IF text_mode(cfg)
       THEN pc' = "start" /\ obs' = obs
       ELSE IF cfg.mode \in VectorModes
            THEN pc' = "continuous" /\ obs' = obs
            ELSE Raise("ValueError")
    /\ UNCHANGED << cfg, population, n_generations, stepsCalled, steps_count,
                    new_prompts, gen, op, evalIdx, generated, total_generated, timing,
                    result, response, parsed >>

NextCtor ==
    \/ Construct
    \/ \E n \in 0..MaxGen, configured \in 1..MaxConfigured : Evolve(n, configured)
    \/ StepInitial
    \/ \E answers \in QueryResults : GeneratePromptsQuery(answers)
    \/ FillReturn
    \/ \E fitness \in FitnessValues : Evaluate(fitness, 0)
    \/ EvaluateFails
    \/ StepReturn
    \/ EvolveReturn

SpecCtor == InitCtor /\ [][NextCtor]_vars

---------------------------------------------------------------------------
(* One operator stage on its own: apply on an arbitrary input group *)

Prompts == { << "a" >>, << "b" >> }

SeqsUpTo(S, n) == UNION { [1..k -> S] : k \in 0..n }

InitOp ==
    /\ \E i \in 0..MaxArity, o \in 0..MaxArity, p \in 0..RandDen :
        cfg = [population_size |-> 1, elites |-> 0, novel_prompts |-> 0,
               sample |-> FALSE, mode |-> "LLM evolve", tournament_size |-> 1,
               operators |-> << Operator(i, o, p) >>]
    /\ \E inputs \in SeqsUpTo(Prompts, MaxArity) :
        op = [stage |-> 1, inputs |-> inputs, output |-> << >>]
    /\ pc = "apply"
    /\ population = NoPopulation
    /\ n_generations = 0
    /\ stepsCalled = 0
    /\ steps_count = 0
    /\ new_prompts = << >>
    /\ gen = NoGen
    /\ evalIdx = 0
    /\ generated = 0
    /\ total_generated = 0
    /\ timing = NoTiming
    /\ result = NoResult
    /\ response = << >>
    /\ parsed = << >>
    /\ obs = NoObs

NextOp ==
    \/ ApplyAssertFails
    \/ \E r \in 0..(RandDen - 1) : ApplySkip(r)
    \/ \E r \in 0..(RandDen - 1) : ApplyExecute(r)
    \/ \E answers \in QueryResults : ApplyQuery(answers)
    \/ ApplyReturn

SpecOp == InitOp /\ [][NextOp]_vars

---------------------------------------------------------------------------
(* The while loop of LLM_evolve_step on its own: a population whose members  *)
(* all scored 0 and any pipeline of one or two operators, whether or not     *)
(* their arities chain                                                       *)

MaxPipe == 2      \* largest arity of an operator in SpecPipe

\* operators that are always skipped or always executed
PipeOperators ==
    { Operator(i, o, p) : i \in 1..MaxPipe, o \in 1..MaxPipe, p \in {0, RandDen} }

InitPipe ==
    /\ \E ps \in 1..MaxPop, ts \in 1..2, sm \in BOOLEAN,
          ops \in [1..1 -> PipeOperators] \cup [1..2 -> PipeOperators] :
        /\ cfg = [population_size |-> ps, elites |-> 0, novel_prompts |-> 0,
                  sample |-> sm, mode |-> "LLM evolve", tournament_size |-> ts,
                  operators |-> ops]
        /\ \E values \in [1..ps -> Prompts] :
            population = [isNone |-> FALSE, values |-> values,
                          evals |-> [i \in 1..ps |-> 0]]
    /\ pc = "LLM_evolve_loop"
    /\ n_generations = 0
    /\ stepsCalled = 0
    /\ steps_count = 0
    /\ new_prompts = << >>
    /\ gen = NoGen
    /\ op = NoOp
    /\ evalIdx = 0
    /\ generated = 0
    /\ total_generated = 0
    /\ timing = NoTiming
    /\ result = NoResult
    /\ response = << >>
    /\ parsed = << >>
    /\ obs = NoObs

NextPipe ==
    \/ Tournament
    \/ ApplyAssertFails
    \/ \E r \in 0..(RandDen - 1) : ApplySkip(r)
    \/ \E r \in 0..(RandDen - 1) : ApplyExecute(r)
    \/ \E answers \in QueryResults : ApplyQuery(answers)
    \/ ApplyReturn
    \/ PipelineNext
    \/ PipelineEnd
    \/ SetValues

SpecPipe == InitPipe /\ [][NextPipe]_vars

---------------------------------------------------------------------------
(* Problem.evaluate on a batch that was just set: one pass over its members,  *)
(* with every generation time, a fitness source that scores a prompt the     *)
(* same way whenever it is asked, and the bookkeeping left by earlier passes *)

\* the sample_time an earlier pass can have left
EarlierSampleTimes == {0, 1, 7}

InitEval ==
    /\ \E ps \in 1..MaxPop, score \in [Prompts -> FitnessValues] :
        /\ cfg = [population_size |-> ps, elites |-> 0, novel_prompts |-> 0,
                  sample |-> FALSE, mode |-> "full LLM", tournament_size |-> 1,
                  operators |-> << >>, score |-> score]
        /\ \E values \in [1..ps -> Prompts] : population = Batch(values)
        /\ total_generated \in {0, ps}
    /\ timing \in [sample_time : EarlierSampleTimes, current_time : {0}]
    /\ generated = 0
    /\ evalIdx = 1
    /\ pc = "evaluate"
    /\ n_generations = 0
    /\ stepsCalled = 0
    /\ steps_count = 0
    /\ new_prompts = << >>
    /\ gen = NoGen
    /\ op = NoOp
    /\ result = NoResult
    /\ response = << >>
    /\ parsed = << >>
    /\ obs = NoObs

NextEval ==
    \/ \E d \in Durations : Evaluate(cfg.score[population.values[evalIdx]], d)
    \/ EvaluateFails

SpecEval == InitEval /\ [][NextEval]_vars

---------------------------------------------------------------------------
(* full_LLM_step on its own, without novel prompts: the step that follows the *)
(* initial one, on an evaluated population of any content                    *)

MaxRegen == 3     \* largest population_size in SpecRegen

InitRegen ==
    /\ \E ps \in 1..MaxRegen, e \in 0..FracDen, sm \in BOOLEAN :
        /\ cfg = [population_size |-> ps, elites |-> e, novel_prompts |-> 0,
                  sample |-> sm, mode |-> "full LLM", tournament_size |-> 1,
                  operators |-> << >>]
        /\ \E values \in [1..ps -> Prompts], evals \in [1..ps -> FitnessValues] :
            population = [isNone |-> FALSE, values |-> values, evals |-> evals]
        /\ total_generated = ps
    /\ pc = "run"
    /\ n_generations = 2
    /\ stepsCalled = 1
    /\ steps_count = 1
    /\ new_prompts = << >>
    /\ gen = NoGen
    /\ op = NoOp
    /\ evalIdx = 0
    /\ generated = 0
    /\ timing = NoTiming
    /\ result = NoResult
    /\ response = << >>
    /\ parsed = << >>
    /\ obs = [NoObs EXCEPT !.queried = TRUE, !.n_arg = 2]

NextRegen ==
    \/ StepFullLLM
    \/ GetNovelPrompts
    \/ \E answers \in QueryResults : FullLLMQuery(answers)
    \/ SetValues

SpecRegen == InitRegen /\ [][NextRegen]_vars

---------------------------------------------------------------------------
(* full_LLM_step on its own, with elites and novel prompts: the step that     *)
(* follows the initial one, on an evaluated population of any content; the    *)
(* elitism and novelty fractions are 0 or 1 / FracDen                         *)

MaxAssemble == 3  \* largest population_size in SpecAssemble

InitAssemble ==
    /\ \E ps \in 1..MaxAssemble, e \in 0..1, nv \in 0..1, sm \in BOOLEAN :
        /\ cfg = [population_size |-> ps, elites |-> e, novel_prompts |-> nv,
                  sample |-> sm, mode |-> "full LLM", tournament_size |-> 1,
                  operators |-> << >>]
        /\ \E values \in [1..ps -> Prompts], evals \in [1..ps -> FitnessValues] :
            population = [isNone |-> FALSE, values |-> values, evals |-> evals]
        /\ total_generated = ps
    /\ pc = "run"
    /\ n_generations = 2
    /\ stepsCalled = 1
    /\ steps_count = 1
    /\ new_prompts = << >>
    /\ gen = NoGen
    /\ op = NoOp
    /\ evalIdx = 0
    /\ generated = 0
    /\ timing = NoTiming
    /\ result = NoResult
    /\ response = << >>
    /\ parsed = << >>
    /\ obs = [NoObs EXCEPT !.queried = TRUE, !.n_arg = 2]

NextAssemble ==
    \/ StepFullLLM
    \/ GetNovelPrompts
    \/ \E answers \in QueryResults : GeneratePromptsQuery(answers)
    \/ NovelReturn
    \/ \E answers \in QueryResults : FullLLMQuery(answers)
    \/ SetValues

SpecAssemble == InitAssemble /\ [][NextAssemble]_vars

---------------------------------------------------------------------------
(* evolve() with every argument, None included, on a full-regeneration search *)
(* of one prompt whose configuration names its number of generations         *)

MaxBudget == 2    \* largest config.generations in SpecEvolve

InitEvolve ==
    /\ \E g \in 1..MaxBudget :
        cfg = [population_size |-> 1, elites |-> 0, novel_prompts |-> 0,
               sample |-> FALSE, mode |-> "full LLM", tournament_size |-> 1,
               operators |-> << >>, generations |-> g]
    /\ pc = "start"
    /\ population = NoPopulation
    /\ n_generations = 0
    /\ stepsCalled = 0
    /\ steps_count = 0
    /\ new_prompts = << >>
    /\ gen = NoGen
    /\ op = NoOp
    /\ evalIdx = 0
    /\ generated = 0
    /\ total_generated = 0
    /\ timing = NoTiming
    /\ result = NoResult
    /\ response = << >>
    /\ parsed = << >>
    /\ obs = NoObs

NextEvolve ==
    \/ \E n \in {None} \cup 0..MaxGen : Evolve(n, cfg.generations)
    \/ StepInitial
    \/ \E answers \in QueryResults : GeneratePromptsQuery(answers)
    \/ FillReturn
    \/ StepFullLLM
    \/ GetNovelPrompts
    \/ \E answers \in QueryResults : FullLLMQuery(answers)
    \/ SetValues
    \/ \E fitness \in FitnessValues : Evaluate(fitness, 0)
    \/ StepReturn
    \/ EvolveReturn

SpecEvolve == InitEvolve /\ [][NextEvolve]_vars

---------------------------------------------------------------------------
(* tournament_selection on its own: an evaluated population of any content,  *)
(* any tournament size and any number k of prompts asked for                 *)

MaxTour == 3      \* largest population and tournament size in SpecTour

InitTour ==
    /\ \E ps \in 1..MaxTour, ts \in 1..MaxTour, k \in 0..MaxArity, sm \in BOOLEAN :
        /\ cfg = [population_size |-> ps, elites |-> 0, novel_prompts |-> 0,
                  sample |-> sm, mode |-> "LLM evolve", tournament_size |-> ts,
                  operators |-> << Operator(k, 1, 1) >>]
        /\ \E values \in [1..ps -> Prompts], evals \in [1..ps -> FitnessValues] :
            population = [isNone |-> FALSE, values |-> values, evals |-> evals]
    /\ pc = "LLM_evolve_loop"
    /\ n_generations = 0
    /\ stepsCalled = 0
    /\ steps_count = 0
    /\ new_prompts = << >>
    /\ gen = NoGen
    /\ op = NoOp
    /\ evalIdx = 0
    /\ generated = 0
    /\ total_generated = 0
    /\ timing = NoTiming
    /\ result = NoResult
    /\ response = << >>
    /\ parsed = << >>
    /\ obs = NoObs

NextTour == Tournament

SpecTour == InitTour /\ [][NextTour]_vars

---------------------------------------------------------------------------
(* generate_batch(population_size) -> _fill on its own, in text mode and in   *)
(* vector mode                                                               *)

MaxFill == 3      \* largest number of solutions generate_batch is asked for in SpecFill

InitFill ==
    /\ \E ps \in 1..MaxFill, m \in {"full LLM", "GA"}, len \in 1..MaxRows :
        /\ cfg = [population_size |-> ps, elites |-> 0, novel_prompts |-> 0,
                  sample |-> FALSE, mode |-> m, tournament_size |-> 1,
                  operators |-> << >>, max_seq_len |-> len]
        /\ gen = [num |-> ps, prompts |-> << >>, caller |-> "_fill"]
    /\ pc = "generate_prompts"
    /\ population = NoPopulation
    /\ n_generations = 0
    /\ stepsCalled = 0
    /\ steps_count = 0
    /\ new_prompts = << >>
    /\ op = NoOp
    /\ evalIdx = 0
    /\ generated = 0
    /\ total_generated = 0
    /\ timing = NoTiming
    /\ result = NoResult
    /\ response = << >>
    /\ parsed = << >>
    /\ obs = NoObs

NextFill ==
    \/ \E answers \in QueryResults : GeneratePromptsQuery(answers)
    \/ FillReturn
    \/ \E rows \in SeqsUpTo(1..MaxRows, MaxFill) : FillVector(rows)

SpecFill == InitFill /\ [][NextFill]_vars

---------------------------------------------------------------------------
(* query_llm on its own: every way the request can go *)

\* the request succeeds, or one statement of the try block raises: requests.post
\* (ConnectionError), raise_for_status (HTTPError), response.json()
\* (JSONDecodeError), the subscripts of the decoded body (KeyError)
Outcomes == {"ok", "ConnectionError", "HTTPError", "JSONDecodeError", "KeyError"}

\* the exceptions raised while the body of the response is decoded
DecodeFailures == {"JSONDecodeError", "KeyError"}

MaxBody == 3      \* longest message content of a response in SpecQuery

InitQuery ==
    /\ pc = "query_llm"
    /\ cfg = [population_size |-> 1, elites |-> 0, novel_prompts |-> 0,
              sample |-> FALSE, mode |-> "full LLM", tournament_size |-> 1,
              operators |-> << >>]
    /\ population = NoPopulation
    /\ n_generations = 0
    /\ stepsCalled = 0
    /\ steps_count = 0
    /\ new_prompts = << >>
    /\ gen = NoGen
    /\ op = NoOp
    /\ evalIdx = 0
    /\ generated = 0
    /\ total_generated = 0
    /\ timing = NoTiming
    /\ result = NoResult
    /\ response = << >>
    /\ parsed = << >>
    /\ obs = NoObs

\* variant: only the request is inside the try block, the decoding follows it
QueryLLMDecodeOutside(text, outcome) ==
    /\ pc = "query_llm"
    /\ IF outcome \in DecodeFailures
       THEN /\ pc' = "error"
            /\ obs' = [obs EXCEPT !.outcome = outcome, !.raised = outcome]
            /\ response' = response
       ELSE /\ pc' = "queried"
            /\ obs' = [obs EXCEPT !.outcome = outcome]
            /\ response' = query_llm(text, outcome = "ok")
    /\ UNCHANGED << cfg, population, n_generations, stepsCalled, steps_count,
                    new_prompts, gen, op, evalIdx, generated, total_generated, timing,
                    result, parsed >>

\* query_llm: the request, its status check and the decoding are all inside the
\* try block; text is the message content of the response when there is one
QueryLLM(text, outcome) ==
    /\ pc = "query_llm"
    /\ pc' = "queried"
    /\ obs' = [obs EXCEPT !.outcome = outcome]
    /\ response' = query_llm(text, outcome = "ok")
    /\ UNCHANGED << cfg, population, n_generations, stepsCalled, steps_count,
                    new_prompts, gen, op, evalIdx, generated, total_generated, timing,
                    result, parsed >>

NextQuery ==
    \E text \in SeqsUpTo(Tokens, MaxBody), outcome \in Outcomes : QueryLLM(text, outcome)

SpecQuery == InitQuery /\ [][NextQuery]_vars

---------------------------------------------------------------------------
(* parse_llm_response on its own: every response of at most MaxLen tokens *)

InitParse ==
    /\ response \in SeqsUpTo(Tokens, MaxLen)
    /\ parsed = << >>
    /\ pc = "parse_llm_response"
    /\ cfg = [population_size |-> 1, elites |-> 0, novel_prompts |-> 0,
              sample |-> FALSE, mode |-> "full LLM", tournament_size |-> 1,
              operators |-> << >>]
    /\ population = NoPopulation
    /\ n_generations = 0
    /\ stepsCalled = 0
    /\ steps_count = 0
    /\ new_prompts = << >>
    /\ gen = NoGen
    /\ op = NoOp
    /\ evalIdx = 0
    /\ generated = 0
    /\ total_generated = 0
    /\ timing = NoTiming
    /\ result = NoResult
    /\ obs = NoObs

Parse ==
    /\ pc = "parse_llm_response"
    /\ parsed' = parse_llm_response(response)
    /\ pc' = "parsed"
    /\ UNCHANGED << cfg, population, n_generations, stepsCalled, steps_count,
                    new_prompts, gen, op, evalIdx, generated, total_generated, timing, result,
                    response, obs >>

NextParse == Parse

SpecParse == InitParse /\ [][NextParse]_vars


---------------------------------------------------------------------------
(* Properties *)

\* m = floor((k / FracDen) * size)
IsFloor(m, k, size) == m * FracDen <= k * size /\ k * size < (m + 1) * FracDen

\* the batch holds exactly population_size solutions, each with a fitness score
PopulationScored ==
    /\ ~population.isNone
    /\ Len(population.values) = cfg.population_size
    /\ Len(population.evals) = cfg.population_size
    /\ \A i \in 1..Len(population.evals) : population.evals[i] \in FitnessValues

\* C1: after every completed step (initial, full-regeneration or operator-pipeline)
\* the population holds exactly population_size solutions and each of them has an
\* assigned fitness score.
C1_PopulationAfterStep ==
    (steps_count > 0 /\ pc \in {"run", "done"}) => PopulationScored

C1_Witness ==
    /\ pc = "run"
    /\ steps_count = 2
    /\ cfg.mode = "LLM evolve"
    /\ cfg.population_size = 2
    /\ cfg.elites = 1
    /\ PopulationScored

\* C2: get_elites returns exactly floor(elitism_fraction * population_size)
\* solutions and get_novel_prompts exactly floor(novelty_fraction * population_size)
\* prompts, with and without sampling.
C2_SelectionCounts ==
    /\ pc = "get_novel_prompts"
        => IsFloor(Len(obs.elitesRet), cfg.elites, cfg.population_size)
    /\ (pc \in {"full_LLM_loop", "LLM_evolve_loop"} /\ "get_novel_prompts" \in obs.calls)
        => /\ IsFloor(Len(obs.elitesRet), cfg.elites, cfg.population_size)
           /\ IsFloor(Len(obs.novelRet), cfg.novel_prompts, cfg.population_size)

C2_Witness ==
    /\ pc = "LLM_evolve_loop"
    /\ "get_novel_prompts" \in obs.calls
    /\ cfg.sample
    /\ cfg.population_size = 2
    /\ Len(obs.elitesRet) = 1
    /\ Len(obs.novelRet) = 1

\* C3: when the derived elite (resp. novel) count is zero, also for a non-zero
\* fraction whose floor is zero, the call returns an empty group and does not
\* query the LLM.
C3_ZeroCountNoOracle ==
    /\ (pc = "get_novel_prompts" /\ IsFloor(0, cfg.elites, cfg.population_size))
        => (obs.elitesRet = << >> /\ ~obs.queried)
    /\ (/\ pc \in {"full_LLM_loop", "LLM_evolve_loop"}
        /\ "get_novel_prompts" \in obs.calls
        /\ IsFloor(0, cfg.novel_prompts, cfg.population_size))
        => (obs.novelRet = << >> /\ ~obs.novelQueried)

C3_Witness ==
    /\ pc = "full_LLM_loop"
    /\ "get_novel_prompts" \in obs.calls
    /\ cfg.novel_prompts > 0
    /\ cfg.elites > 0
    /\ cfg.population_size = 1
    /\ obs.novelRet = << >>
    /\ obs.elitesRet = << >>
    /\ ~obs.novelQueried

\* C4: evolve(n) with n >= 1 has started and completed exactly n steps when it
\* reads the result.
C4_StepsPerEvolve ==
    (result.returned /\ obs.n_arg >= 1)
        => (stepsCalled = obs.n_arg /\ steps_count = obs.n_arg)

C4_Witness == result.returned /\ obs.n_arg = MaxGen /\ steps_count = MaxGen

\* C5 as claimed: on a fresh engine a run of n generations applies the stepping
\* strategy exactly n times after the initialization step.
C5_Original ==
    result.returned => obs.strategySteps = n_generations

\* C5: on a fresh engine a run of n generations makes exactly n steps, the first of
\* which is the initialization step, so the stepping strategy is applied exactly
\* n - 1 times.
C5_StrategyStepsPerRun ==
    result.returned
        => (stepsCalled = n_generations /\ obs.strategySteps = n_generations - 1)

C5_Witness ==
    result.returned /\ n_generations = MaxGen /\ obs.strategySteps = MaxGen - 1

\* C6: the result reports the maximum fitness of the final population, a member of
\* the final population that has it, and the final population's solutions and
\* fitness values, both of length population_size.
C6_ResultIsTrueMaximum ==
    result.returned =>
        /\ \A i \in 1..Len(population.evals) :
                result.best_solution.fitness >= population.evals[i]
        /\ \E i \in 1..Len(population.values) :
                /\ population.values[i] = result.best_solution.solution
                /\ population.evals[i] = result.best_solution.fitness
        /\ result.last_generation.solutions = population.values
        /\ result.last_generation.fitness_values = population.evals
        /\ Len(result.last_generation.solutions) = cfg.population_size
        /\ Len(result.last_generation.fitness_values) = cfg.population_size

C6_Witness ==
    /\ result.returned
    /\ steps_count >= 2
    /\ cfg.population_size = 2
    /\ population.evals[1] < population.evals[2]
    /\ result.best_solution.solution = population.values[2]

\* C7: the first step generates and evaluates the initial population of
\* population_size solutions and invokes none of get_elites, get_novel_prompts,
\* tournament_selection and the operators.
C7_FirstStepNoStrategy ==
    /\ stepsCalled = 1 => (obs.calls = {} /\ obs.strategySteps = 0)
    /\ (stepsCalled = 1 /\ steps_count = 1)
        => (PopulationScored /\ total_generated = cfg.population_size)

C7_Witness ==
    /\ stepsCalled = 1
    /\ steps_count = 1
    /\ pc = "run"
    /\ n_generations > 1
    /\ cfg.population_size = 2
    /\ PopulationScored

\* output is taken from pairwise distinct positions of inputs
IsSubsample(output, inputs) ==
    \E q \in Injections(1..Len(inputs), Len(output)) : output = At(inputs, q)

\* apply with probability 0 returned output_arity prompts from distinct positions
\* of the input group without querying the LLM
SkippedCleanly ==
    /\ pc = "applied"
    /\ Len(op.output) = Stage.output
    /\ IsSubsample(op.output, op.inputs)
    /\ ~obs.queried

\* C8 as claimed: for every input and output arity, a stage with probability 0
\* applied to exactly input_arity prompts returns exactly output_arity prompts from
\* distinct positions of the input and never queries the LLM.
C8_Original ==
    (pc # "apply" /\ Stage.probability = 0 /\ Len(op.inputs) = Stage.input)
        => SkippedCleanly

\* C8: the same for every output arity that does not exceed the input arity; with a
\* larger output arity the stage raises and returns nothing.
C8_SkipSubsample ==
    (pc # "apply" /\ Stage.probability = 0 /\ Len(op.inputs) = Stage.input)
        => IF Stage.output <= Stage.input
           THEN SkippedCleanly
           ELSE pc = "error" /\ op.output = << >> /\ ~obs.queried

C8_Witness ==
    /\ pc = "applied"
    /\ Stage.probability = 0
    /\ Stage.input = 3
    /\ Stage.output = 2
    /\ op.inputs = << << "a" >>, << "b" >>, << "a" >> >>
    /\ op.output = << << "b" >>, << "a" >> >>

TagCountsEqual(s) ==
    Cardinality({i \in 1..Len(s) : s[i] = "O"}) = Cardinality({i \in 1..Len(s) : s[i] = "C"})

\* the prompts of the well-formed answers of the LLM
WellFormedPrompts ==
    UNION { { parse_llm_response(Strip(t))[i] : i \in 1..Len(parse_llm_response(Strip(t))) } :
            t \in { u \in LLMTexts : TagCountsEqual(u) } }

\* C9: a stage with probability 1 queries the LLM and accumulates parsed prompts
\* until it holds exactly output_arity of them; prompts of malformed answers and
\* the fallback text are never among them; the group never exceeds that size and
\* is returned only at that size.
C9_ExecuteCollectsExactly ==
    (pc # "apply" /\ Stage.probability = RandDen /\ Len(op.inputs) = Stage.input)
        => /\ pc \in {"apply_loop", "applied"}
           /\ Len(op.output) <= Stage.output
           /\ ~obs.queried => op.output = << >>
           /\ \A i \in 1..Len(op.output) : op.output[i] \in WellFormedPrompts
           /\ pc = "applied"
                => (Len(op.output) = Stage.output /\ (Stage.output > 0 => obs.queried))

C9_Witness ==
    /\ pc = "applied"
    /\ Stage.probability = RandDen
    /\ Len(op.inputs) = Stage.input
    /\ Stage.output = 3
    /\ op.output = << << "b" >>, << "a" >>, << "b" >> >>

\* the trimmed texts between each opening tag and the next closing tag, scanning
\* the response from left to right
RECURSIVE EnclosedTexts(_)
EnclosedTexts(s) ==
    IF ~Contains(s, "O") THEN << >>
    ELSE LET rest == Drop(s, Index(s, "O"))
         IN  IF ~Contains(rest, "C") THEN << >>
             ELSE << Strip(Take(rest, Index(rest, "C") - 1)) >>
                  \o EnclosedTexts(Drop(rest, Index(rest, "C")))

\* no opening tag after the last closing tag
LastTagCloses(s) ==
    \A i \in 1..Len(s) : s[i] = "O" => \E j \in (i + 1)..Len(s) : s[j] = "C"

\* the trimmed text from the first opening tag that no closing tag follows to the
\* end of the response
UnclosedText(s) ==
    LET i == CHOOSE i \in 1..Len(s) :
                /\ s[i] = "O"
                /\ \A j \in (i + 1)..Len(s) : s[j] # "C"
                /\ \A k \in 1..(i - 1) :
                        s[k] = "O" => \E j \in (k + 1)..Len(s) : s[j] = "C"
    IN  Strip(SubSeq(s, i + 1, Len(s)))

\* C10 as claimed: with equal tag counts the result is the list of trimmed texts
\* enclosed by the tag pairs, in order; with different counts it is empty.
C10_Original ==
    pc = "parsed"
        => parsed = IF TagCountsEqual(response) THEN EnclosedTexts(response) ELSE << >>

\* C10: with different tag counts the result is empty; with equal counts and no
\* opening tag after the last closing tag it is the list of trimmed texts enclosed
\* by the tag pairs, in order; an opening tag after the last closing tag adds the
\* trimmed text from it to the end of the response.
C10_ParseTaggedPrompts ==
    pc = "parsed"
        => /\ ~TagCountsEqual(response) => parsed = << >>
           /\ (TagCountsEqual(response) /\ LastTagCloses(response))
                => parsed = EnclosedTexts(response)
           /\ (TagCountsEqual(response) /\ ~LastTagCloses(response))
                => /\ Len(parsed) = Len(EnclosedTexts(response)) + 1
                   /\ Take(parsed, Len(parsed) - 1) = EnclosedTexts(response)
                   /\ parsed[Len(parsed)] = UnclosedText(response)

C10_Witness ==
    /\ pc = "parsed"
    /\ response = << "O", "a", "C", "O", "b", "C" >>
    /\ parsed = << << "a" >>, << "b" >> >>

---------------------------------------------------------------------------
(* C11 *)

\* the tournament ran on a population of at least tournament_size members
TournamentRan ==
    /\ pc \in {"apply", "error"}
    /\ cfg.tournament_size <= Len(population.values)

\* the group handed on holds n prompts, all of them members the tournament drew
SelectedFromDrawn(n) ==
    /\ Cardinality(obs.drawn) = cfg.tournament_size
    /\ obs.drawn \subseteq 1..Len(population.values)
    /\ Len(op.inputs) = n
    /\ \A i \in 1..Len(op.inputs) :
          \E j \in obs.drawn : op.inputs[i] = population.values[j]

\* C11 as stated: on a population of at least tournament_size members the
\* tournament draws exactly tournament_size distinct members and returns exactly
\* k prompts of the drawn subset, whatever k is asked for
C11_Original ==
    TournamentRan =>
        /\ pc = "apply"
        /\ SelectedFromDrawn(cfg.operators[1].input)

\* C11 amended: the tournament draws exactly tournament_size distinct members and
\* every prompt it returns is one of them; it returns exactly k prompts when
\* k <= tournament_size; asked for more, it returns only the tournament_size
\* members drawn when it takes the best k, and raises when it samples
C11_TournamentSelection ==
    TournamentRan =>
        LET k == cfg.operators[1].input
        IN  IF k <= cfg.tournament_size
            THEN pc = "apply" /\ SelectedFromDrawn(k)
            ELSE IF cfg.sample
                 THEN pc = "error" /\ obs.raised = "ValueError" /\ op = NoOp
                 ELSE pc = "apply" /\ SelectedFromDrawn(cfg.tournament_size)

C11_Witness ==
    /\ pc = "apply"
    /\ Len(population.values) = 3
    /\ cfg.tournament_size = 2
    /\ cfg.operators[1].input = 2
    /\ obs.drawn = {1, 3}
    /\ population.values[2] # population.values[1]
    /\ population.values[2] # population.values[3]

---------------------------------------------------------------------------
(* C12 *)

\* the step that replaces the population at the end of full_LLM_step
FullLLMReplaces ==
    /\ pc = "full_LLM_loop"
    /\ pc' = "evaluate"
    /\ cfg.novel_prompts = 0

---------------------------------------------------------------------------
(* C13 *)

\* a conversion of a prompt of the oracle with exactly max_seq_len rows
ValidEmbedding(e) ==
    /\ e \in [text : WellFormedPrompts, rows : 1..MaxRows]
    /\ e.rows = cfg.max_seq_len

\* C13: the initial generation fills exactly population_size slots.  In vector
\* mode every solution admitted, while the batch is collected and when it is
\* filled, is a conversion with exactly max_seq_len rows, and the batch is filled
\* only once the quota is met; in text mode the slots hold exactly
\* population_size prompts of the oracle, unconverted.
C13_FillExactly ==
    /\ (pc = "generate_prompts" /\ ~text_mode(cfg)) =>
          /\ population.isNone
          /\ Len(new_prompts) < cfg.population_size
          /\ \A i \in 1..Len(new_prompts) : ValidEmbedding(new_prompts[i])
    /\ (pc = "filled") =>
          /\ ~text_mode(cfg)
          /\ Len(population.values) = cfg.population_size
          /\ \A i \in 1..Len(population.values) : ValidEmbedding(population.values[i])
    /\ (pc = "evaluate") =>
          /\ text_mode(cfg)
          /\ Len(population.values) = cfg.population_size
          /\ \A i \in 1..Len(population.values) :
                population.values[i] \in WellFormedPrompts

\* vector mode, two slots: one conversion was admitted, one of another length
\* dropped, and the prompts have been asked for again
C13_Witness ==
    /\ pc = "generate_prompts"
    /\ ~text_mode(cfg)
    /\ cfg.population_size = 2
    /\ Len(new_prompts) = 1
    /\ Len(gen.prompts) = 2

---------------------------------------------------------------------------
(* C14 *)

\* C14: query_llm never raises: however the request went it returns, and whenever
\* the transport or the decoding of the response failed the value returned is the
\* fallback text.
C14_QueryNeverRaises ==
    /\ pc # "error"
    /\ obs.raised = "none"
    /\ (pc = "queried" /\ obs.outcome # "ok") => response = Fallback

\* the body of the response could not be decoded and the fallback was returned
C14_Witness ==
    /\ pc = "queried"
    /\ obs.outcome = "JSONDecodeError"
    /\ response = Fallback

---------------------------------------------------------------------------
(* C15 *)

\* the positions inside the loops that collect prompts: generate_prompts, the
\* loop of an operator stage, the loop of full_LLM_step
CollectingLoops == {"generate_prompts", "apply_loop", "full_LLM_loop"}

\* C15 as stated: with an LLM service whose only fault is that requests fail
\* (the fallback text takes the place of the answer), every prompt-collecting
\* loop that is entered is left again.
C15_Original ==
    \A l \in CollectingLoops : (pc = l) ~> (pc # l)

---------------------------------------------------------------------------
(* C16 *)

\* C16: once the fitness source has failed on a member the run is over with that
\* exception: the step in which it failed is never completed, evolve returns
\* nothing, and the member it failed on and every later member of the population
\* are left without a fitness score.
C16_FitnessFailureAborts ==
    (obs.raised = "FitnessSourceError") =>
        /\ pc = "error"
        /\ steps_count = stepsCalled - 1
        /\ ~result.returned
        /\ evalIdx \in 1..Len(population.values)
        /\ \A i \in evalIdx..Len(population.values) : population.evals[i] = NaN

\* the failure came on the first of two members, in a step after the first one
C16_Witness ==
    /\ obs.raised = "FitnessSourceError"
    /\ Len(population.values) = 2
    /\ evalIdx = 1
    /\ stepsCalled = 2

---------------------------------------------------------------------------
(* C17 *)

---------------------------------------------------------------------------
(* C18 *)

\* the population is the evaluated one the step began with
Unreplaced == \A i \in 1..Len(population.evals) : population.evals[i] \in FitnessValues

\* a stage holds a group whose size is not its input arity
ArityMismatch == pc = "apply" /\ Len(op.inputs) # Stage.input

\* C18: the operators are applied in the order of the pipeline, each on the
\* output of the one before it; a stage handed a group whose size is not its
\* input arity does nothing but raise AssertionError, having produced no output,
\* and the run ends there with the population of the previous generation still
\* in place.
C18_PipelineChainsOrFails ==
    /\ [][ (pc = "applied" /\ pc' = "apply") =>
             /\ op'.stage = op.stage + 1
             /\ op'.inputs = op.output ]_vars
    /\ [][ ArityMismatch =>
             /\ pc' = "error"
             /\ obs'.raised = "AssertionError"
             /\ op' = op /\ op.output = << >>
             /\ new_prompts' = new_prompts
             /\ population' = population ]_vars
    /\ []( obs.raised = "AssertionError" => pc = "error" /\ Unreplaced )

\* the arities do not chain: the second operator was handed one prompt for an
\* input arity of two
C18_Witness ==
    /\ obs.raised = "AssertionError"
    /\ op.stage = 2
    /\ Len(op.inputs) = 1
    /\ cfg.operators[2].input = 2

---------------------------------------------------------------------------
(* C19 *)

\* an evaluation has just completed
EvaluationCompletes == pc = "evaluate" /\ pc' = "evaluate" /\ evalIdx' = evalIdx + 1

\* C19: counting the evaluations completed since the pass began (evalIdx - 1),
\* the pass counter and the accumulated pass time are set to zero by the
\* evaluation that brings the count to population_size and by no other; every
\* other evaluation adds one to the counter and does not decrease the time; so
\* after every completed evaluation the counter lies in 0 .. population_size - 1.
C19_BookkeepingResets ==
    /\ [][ EvaluationCompletes =>
             IF evalIdx = cfg.population_size
             THEN generated' = 0 /\ timing'.current_time = 0
             ELSE /\ generated' = generated + 1
                  /\ timing'.current_time >= timing.current_time ]_vars
    /\ []( pc = "evaluate" =>
             /\ generated \in 0..(cfg.population_size - 1)
             /\ generated = (evalIdx - 1) % cfg.population_size )

\* a pass over two members: the first evaluation took time and left the counter
\* at one, the second has set counter and time back to zero
C19_Witness ==
    /\ pc = "evaluate"
    /\ cfg.population_size = 2
    /\ evalIdx = 3
    /\ generated = 0
    /\ timing.current_time = 0
    /\ timing.sample_time > 1

---------------------------------------------------------------------------
(* C20 *)

\* C20: whatever the bookkeeping is (sample_time, current_time, generated,
\* total_generated), the members are evaluated in the order of the batch and
\* each evaluated member holds the fitness the source gives to its solution: the
\* fitness values and the order are a function of the batch and the source alone.
C20_BookkeepingObservational ==
    pc \in {"evaluate", "error"} =>
        /\ evalIdx \in 1..(Len(population.values) + 1)
        /\ \A i \in 1..Len(population.values) :
              population.evals[i] =
                  IF i < evalIdx THEN cfg.score[population.values[i]] ELSE NaN

\* two members were evaluated after an earlier pass had left a sample_time, with
\* generation times that moved the latency average
C20_Witness ==
    /\ pc = "evaluate"
    /\ Len(population.values) = 2
    /\ evalIdx = 3
    /\ total_generated = 4
    /\ timing.sample_time \notin EarlierSampleTimes
    /\ population.evals[1] # population.evals[2]

---------------------------------------------------------------------------
(* C21 *)

\* full_LLM_step has built its ranking report and taken its elites
ElitesTaken == pc = "get_novel_prompts" /\ cfg.mode = "full LLM"

\* the ranking report lists every member once, in the order of the positions q
RankedBy(q) == obs.ranking = Ranking(population, q)

\* the elites are the members at the first floor(elites * population_size)
\* positions of q
ElitesFirstOf(q) ==
    new_prompts = At(population.values,
                     Take(q, FloorFrac(cfg.elites, cfg.population_size)))

\* C21 as stated: the ranking report lists the population by fitness ascending
\* and, with sampling disabled, the elites are the first k members of that
\* order, the k lowest-fitness members
C21_Original ==
    ElitesTaken =>
        \E q \in ArgSorts(population.evals, FALSE) :
            /\ RankedBy(q)
            /\ ~cfg.sample => ElitesFirstOf(q)

\* C21 amended: the ranking report lists the population from the best to the
\* worst member, by fitness descending under the maximize objective, and, with
\* sampling disabled, the elites are the first k members of that same order,
\* the k highest-fitness members
C21_ElitesBestFirst ==
    ElitesTaken =>
        \E q \in ArgSorts(population.evals, TRUE) :
            /\ RankedBy(q)
            /\ ~cfg.sample => ElitesFirstOf(q)

\* three members scored 0, 1, 0 and one elite: the elite is the member scored 1
\* and the report lists it first
C21_Witness ==
    /\ ElitesTaken
    /\ ~cfg.sample
    /\ population.evals = << 0, 1, 0 >>
    /\ population.values = << << "a" >>, << "b" >>, << "a" >> >>
    /\ FloorFrac(cfg.elites, cfg.population_size) = 1
    /\ new_prompts = << << "b" >> >>
    /\ obs.ranking[1] = [number |-> 2, prompt |-> << "b" >>, score |-> 100]

---------------------------------------------------------------------------
(* C22 *)

\* the prompts handed on are those at the positions q of the population, and no
\* member the tournament drew and left out scores higher than one it kept
FittestOfDrawn(q) ==
    /\ op.inputs = At(population.values, q)
    /\ \A j \in obs.drawn \ Range(q) :
          \A i \in Range(q) : population.evals[j] <= population.evals[i]

\* C22 as stated: with sampling disabled, the k prompts the tournament returns
\* are the k members of the drawn subset with the highest fitness
C22_Original ==
    (TournamentRan /\ pc = "apply" /\ ~cfg.sample
        /\ cfg.operators[1].input <= cfg.tournament_size)
    => \E q \in Injections(obs.drawn, cfg.operators[1].input) : FittestOfDrawn(q)

---------------------------------------------------------------------------
(* C23 *)

\* no population yet
Uninitialized == population.isNone

\* generate_batch is producing an initial population
GeneratingInitial == gen.caller = "_fill"

\* C23: the engine has a population from its first step on: the population is
\* created during the first step and only then, every completed step leaves a
\* population, and once a population exists no step removes it or generates an
\* initial population again.
C23_ReadyStaysReady ==
    /\ [](steps_count > 0 => ~Uninitialized)
    /\ [][ (Uninitialized /\ ~Uninitialized') =>
              (stepsCalled = 1 /\ steps_count = 0 /\ GeneratingInitial) ]_vars
    /\ [][ ~Uninitialized => (~Uninitialized' /\ ~GeneratingInitial') ]_vars

\* the third step of a full-regeneration run has replaced the members of the
\* population it found
C23_Witness ==
    /\ cfg.mode = "full LLM"
    /\ pc = "evaluate"
    /\ stepsCalled = 3
    /\ steps_count = 2
    /\ obs.strategySteps = 2
    /\ ~Uninitialized
    /\ ~GeneratingInitial

---------------------------------------------------------------------------
(* C24 *)

\* a query of one of the collecting loops is answered with a malformed response
MalformedAnswer ==
    \/ \E answers \in MalformedResults : GeneratePromptsQuery(answers)
    \/ \E answers \in MalformedResults : FullLLMQuery(answers)
    \/ \E answers \in MalformedResults : ApplyQuery(answers)

\* the prompts collected by the step, its loops and its operators
Collected == << new_prompts, gen.prompts, op.output >>

\* the running loop has collected what it was asked for
QuotaMet ==
    CASE pc = "generate_prompts" -> Len(gen.prompts) >= gen.num
      [] pc = "full_LLM_loop"    -> Len(new_prompts) >= cfg.population_size
      [] pc = "apply_loop"       -> Len(op.output) >= Stage.output
      [] OTHER                   -> TRUE

\* a step has been started and has neither returned nor raised
StepRunning == stepsCalled > steps_count /\ pc # "error"

\* C24: a malformed response raises nothing and adds no prompt: the loop that
\* asked stays where it is and asks again; a collecting loop is left only when
\* its quota is met, however many answers that takes; and when answers holding
\* a prompt keep arriving, every step that is started returns or raises.
C24_MalformedRetried ==
    /\ [][ MalformedAnswer =>
              (pc' = pc /\ Collected' = Collected /\ obs'.raised = "none") ]_vars
    /\ [][ (pc \in CollectingLoops /\ pc' # pc) => QuotaMet ]_vars
    /\ (StepRunning ~> ~StepRunning)

\* the loop of full_LLM_step asks again after a malformed answer, with nothing
\* collected so far
C24_Witness ==
    /\ pc = "full_LLM_loop"
    /\ obs.queried
    /\ obs.retries = 1
    /\ new_prompts = << >>
    /\ cfg.population_size = 2

---------------------------------------------------------------------------
(* C25 *)

\* one turn of the fill loop of full_LLM_step: a query and what it brought
FullLLMTurn ==
    /\ pc = "full_LLM_loop"
    /\ pc' = "full_LLM_loop"
    /\ new_prompts' # new_prompts \/ obs'.retries # obs.retries

\* s is the beginning of t
IsPrefix(s, t) == Len(s) <= Len(t) /\ SubSeq(t, 1, Len(s)) = s

\* r lists every member of the population once, each with its number, its
\* prompt and its score out of 100
IsRankingOf(r, pop) ==
    /\ Len(r) = Len(pop.values)
    /\ { r[i].number : i \in 1..Len(r) } = 1..Len(pop.values)
    /\ \A i \in 1..Len(r) :
          /\ r[i].prompt = pop.values[r[i].number]
          /\ r[i].score = pop.evals[r[i].number] * 50 + 50

\* C25: in the fill loop of a full-regeneration step the prompts collected begin
\* with the elites followed by the novel prompts, and the ranking report is a
\* ranking of the previous population; every query of the loop carries that
\* report and asks for population_size minus the number of prompts collected so
\* far; what a query brings is appended, prompts of the oracle only, and never
\* beyond population_size; the population is then replaced by the prompts
\* collected.
C25_AssembledInOrder ==
    /\ [](pc = "full_LLM_loop" =>
            /\ IsPrefix(obs.elitesRet \o obs.novelRet, new_prompts)
            /\ IsRankingOf(obs.ranking, population))
    /\ [][ FullLLMTurn =>
              /\ obs'.query = FullLLMPrompt(obs.ranking,
                                            cfg.population_size - Len(new_prompts))
              /\ obs'.ranking = obs.ranking
              /\ population' = population
              /\ IsPrefix(new_prompts, new_prompts')
              /\ Len(new_prompts') <= cfg.population_size
              /\ \A i \in (Len(new_prompts) + 1)..Len(new_prompts') :
                    new_prompts'[i] \in WellFormedPrompts ]_vars
    /\ [][ (pc = "full_LLM_loop" /\ pc' = "evaluate") =>
              population'.values = new_prompts ]_vars

\* a population of three: one elite, one novel prompt, and a query for the one
\* prompt still missing, which brought it
C25_Witness ==
    /\ pc = "full_LLM_loop"
    /\ cfg.population_size = 3
    /\ Len(obs.elitesRet) = 1
    /\ Len(obs.novelRet) = 1
    /\ obs.query.kind = "full_LLM"
    /\ obs.query.num_generate = 1
    /\ Len(new_prompts) = 3

---------------------------------------------------------------------------
(* C26 *)

\* one turn of the loop of generate_prompts on behalf of get_novel_prompts
NovelTurn ==
    /\ pc = "generate_prompts"
    /\ pc' = "generate_prompts"
    /\ gen.caller = "get_novel_prompts"
    /\ gen'.prompts # gen.prompts \/ obs'.retries # obs.retries

\* int(population_size * novel_prompts)
NovelCount == FloorFrac(cfg.novel_prompts, cfg.population_size)

\* C26: the instruction get_novel_prompts sends to the oracle is the request for
\* fresh prompts with the number still needed, the novel count minus the prompts
\* the call has collected, and nothing else: whatever the population and its
\* fitness values are, the same count gives the same instruction.
C26_NovelQueryByCount ==
    [][ NovelTurn => obs'.query = GenerateQuery(NovelCount - Len(gen.prompts)) ]_vars

\* a population of three whose members differ in prompt and score, and the
\* request for the one novel prompt of the step, answered
C26_Witness ==
    /\ pc = "generate_prompts"
    /\ gen.caller = "get_novel_prompts"
    /\ population.values = << << "a" >>, << "b" >>, << "a" >> >>
    /\ population.evals = << 1, 0, 1 >>
    /\ obs.query = GenerateQuery(1)
    /\ Len(gen.prompts) = 1

---------------------------------------------------------------------------
(* C27 *)

\* the positions of LLM_evolve_step after its elites and novel prompts
PipelinePositions == {"LLM_evolve_loop", "apply", "apply_loop", "applied"}

\* the step hands the assembled list to set_values
PipelineReplaces == pc = "LLM_evolve_loop" /\ pc' = "evaluate"

\* a tournament has selected the group of the next turn
TournamentSelects == pc = "LLM_evolve_loop" /\ pc' = "apply"

\* C27: while an operator-pipeline step assembles the new population, the
\* population, prompts and scores, stays as the previous generation left it;
\* every tournament takes its group from members of that population; the
\* population changes in one move, when the assembled list replaces it, and
\* its members are then without a score, awaiting evaluation.
C27_PopulationHeldUntilReplaced ==
    /\ [][ (pc \in PipelinePositions /\ ~PipelineReplaces) =>
              population' = population ]_vars
    /\ [][ TournamentSelects =>
              /\ obs'.drawn \subseteq 1..Len(population.values)
              /\ \A i \in 1..Len(op'.inputs) :
                    \E j \in obs'.drawn : op'.inputs[i] = population.values[j] ]_vars
    /\ [][ PipelineReplaces =>
              /\ population'.values = new_prompts
              /\ \A i \in 1..Len(population'.evals) : population'.evals[i] = NaN
              /\ evalIdx' = 1 ]_vars

\* the second tournament of a step: the first offspring, "b", is collected and
\* no member of the population, two "a", has changed
C27_Witness ==
    /\ pc = "apply"
    /\ op.stage = 1
    /\ obs.drawn # {}
    /\ new_prompts = << << "b" >> >>
    /\ population.values = << << "a" >>, << "a" >> >>
    /\ op.inputs = << << "a" >> >>

---------------------------------------------------------------------------
(* C28 *)

\* no step is running: run() is between two steps or evolve has returned
BetweenSteps == pc \in {"run", "done"}

\* Problem.evaluate is going through the batch and no loop of the step that
\* queries the oracle is open any more
EvaluatingAfterQueries ==
    /\ new_prompts = << >> /\ gen = NoGen /\ op = NoOp
    /\ obs.query = NoQuery

\* the members before position evalIdx, and only they, were scored in this pass
ScoredUpTo ==
    /\ evalIdx \in 1..(Len(population.values) + 1)
    /\ \A i \in 1..Len(population.values) :
          IF i < evalIdx THEN population.evals[i] \in FitnessValues
                         ELSE population.evals[i] = NaN

\* C28: the evaluation of a step begins when its oracle queries are over and
\* scores the members of the new population one by one, each once, carried-over
\* elites included: the pass counter counts them and returns to 0 with the last
\* one; at the end of every completed step the pass counter is 0 and
\* total_generated is population_size times the number of completed steps.
C28_OneEvaluationPerMember ==
    /\ pc = "evaluate" =>
          /\ EvaluatingAfterQueries
          /\ Len(population.values) = cfg.population_size
          /\ ScoredUpTo
          /\ generated = (evalIdx - 1) % cfg.population_size
          /\ total_generated =
                cfg.population_size * (steps_count + (evalIdx - 1) \div cfg.population_size)
    /\ BetweenSteps =>
          /\ generated = 0
          /\ total_generated = cfg.population_size * steps_count

\* three completed steps on a population of two with one elite carried over in
\* each of the last two: six evaluations
C28_Witness ==
    /\ pc = "run"
    /\ steps_count = 3
    /\ cfg.population_size = 2
    /\ cfg.elites = 1
    /\ cfg.mode = "full LLM"
    /\ generated = 0
    /\ total_generated = 6

---------------------------------------------------------------------------
(* C29 *)

\* every string held as a prompt: the members of the population, the prompts
\* collected for the next one, and the inputs and outputs of the operators
HeldPrompts ==
    Range(population.values) \cup Range(new_prompts) \cup Range(gen.prompts)
        \cup Range(op.inputs) \cup Range(op.output)

\* C29: the fallback text parses to zero prompts and is never held as a prompt:
\* every member of a population, every prompt collected for the next one and
\* every input and output of an operator is text enclosed in the tags of a
\* well-formed answer of the oracle, taken from it in this step or carried over
\* from a previous population.
C29_FallbackNeverAdmitted ==
    /\ parse_llm_response(Fallback) = << >>
    /\ \A m \in HeldPrompts : m # Fallback /\ m \in WellFormedPrompts

\* a full-regeneration step holds its elite and has just been answered with
\* the fallback text: nothing was added
C29_Witness ==
    /\ pc = "full_LLM_loop"
    /\ cfg.population_size = 2
    /\ obs.queried
    /\ obs.retries = 1
    /\ Len(new_prompts) = 1
    /\ new_prompts = obs.elitesRet

---------------------------------------------------------------------------
(* C30 *)

\* the number of generations evolve() has to run for its argument
Budget == IF obs.n_arg \in {None, 0} THEN cfg.generations ELSE obs.n_arg

====
